---------------------------- MODULE Spec2Model ----------------------------
(***************************************************************************)
(* A model of vaultd's vault core (vault/vault.go) over its sqlite store   *)
(* (persist/sqlite/vault.go).                                              *)
(*                                                                         *)
(* Goroutines calling into one Vault are the threads of the model.  Every  *)
(* handler except Sign takes v.mu for its whole body, so such a handler is *)
(* two steps: Begin<Op> (tg.Add and mu.Lock) and Do<Op> (the body, the     *)
(* deferred mu.Unlock and the return).  Sign takes no mutex: its store     *)
(* reads and its reads of v.aead / v.mac are separate steps that           *)
(* interleave with everything else.                                        *)
(*                                                                         *)
(* Cryptography is modelled symbolically and collision free: a key is the  *)
(* pair (secret, salt) it was derived from, a sealed blob remembers the    *)
(* key, nonce and plaintext, and opening succeeds iff the keys agree.      *)
(***************************************************************************)
EXTENDS Integers, Sequences, FiniteSets, TLC

\* ------------------------------------------------------------------ bounds
NumThreads == 2
NumSecrets == 2
NumSalts == 1
NumNonces == 1
NumPlainSeeds == 2
MaxIndex == 1
NumHashes == 1
MaxOffset == 1
MaxLimit == 2

Threads == 1..NumThreads
Secrets == 1..NumSecrets
Salts == 1..NumSalts
Nonces == 1..NumNonces
PlainSeeds == 1..NumPlainSeeds
Hashes == 1..NumHashes
\* seed ids a caller may name: every id the store can hand out
SeedIDs == 1..NumPlainSeeds
Indices == 0..MaxIndex
Offsets == 0..MaxOffset
Limits == 1..MaxLimit

\* ------------------------------------------------------------ the errors
ErrNone == "nil"
ErrNotFound == "not found"
ErrSaltSet == "salt already set"
ErrIncorrectSecret == "incorrect secret"
ErrUnlocked == "already unlocked"
ErrLocked == "vault is locked"
\* threadgroup.ErrClosed, returned by tg.Add after tg.Stop
ErrClosed == "threadgroup closed"
\* "failed to decrypt seed": aead.Open's authentication failure
ErrDecrypt == "failed to decrypt seed"
\* a nil-interface method call: runtime panic in the calling goroutine
Panic == "panic"

\* --------------------------------------------------------- cryptography
\* the nil cipher.AEAD / hash.Hash
NoKey == [secret |-> 0, salt |-> 0]

\* argon2.IDKey(secret, salt, 3, 64*1024, 4, 32)
IDKey(secret, salt) == [secret |-> secret, salt |-> salt]

\* aead.Seal(nonce, nonce, seed, nil): nonce || ciphertext || tag
Seal(key, nonce, seed) == [key |-> key, nonce |-> nonce, pt |-> seed]

\* aead.Open(..., blob[:n], blob[n:], nil) succeeds iff the tag verifies
OpenOK(key, blob) == blob.key = key

\* the plaintext a successful aead.Open yields
OpenPlain(key, blob) == blob.pt

\* mac.Reset(); mac.Write(seed); mac.Sum(nil): keyed BLAKE2b-256
MacSum(key, seed) == [key |-> key, pt |-> seed]

\* wallet.KeyFromSeed(&seed, index)
KeyFromSeed(seed, index) == [skSeed |-> seed, skIndex |-> index]

\* types.PrivateKey.PublicKey()
PublicKey(sk) == [pkSeed |-> sk.skSeed, pkIndex |-> sk.skIndex]

\* types.PrivateKey.SignHash(hash)
SignHash(sk, hash) == [signer |-> sk, hash |-> hash]

\* types.PublicKey.VerifyHash(hash, sig)
VerifyHash(pk, hash, sig) == sig.hash = hash /\ PublicKey(sig.signer) = pk

\* every public key a caller may name, stored or not
AllPKs == {PublicKey(KeyFromSeed(s, i)) : s \in PlainSeeds, i \in Indices}

\* ------------------------------------------------------------- the state
VARIABLES
    aead,         \* Vault.aead: the installed key, or NoKey for nil
    mac,          \* Vault.mac: the installed key, or NoKey for nil
    mu,           \* Vault.mu: the thread holding it, or 0
    closed,       \* Vault.tg has been stopped
    keySalt,      \* global_settings.key_salt: a salt, or 0 for NULL
    seeds,        \* table seeds, in id order: row i has id i
    signingKeys,  \* table signing_keys
    pc,           \* per thread: where it stands in its handler
    call,         \* per thread: the handler it runs and its arguments
    loc,          \* per thread: the local variables of Sign, Unlock's salt,
                  \* `attempt` and `err` of Store.transaction, and the database
                  \* file the caller of OpenDatabase names; the first thread's
                  \* `m` is the chain Manager with its explorer
    firstSecret,  \* history: the secret of the first Unlock that succeeded, or 0
    last          \* the call that returned in the step just taken, with its
                  \* result and the state it ran in; NoRet after any other step

vars == <<aead, mac, mu, closed, keySalt, seeds, signingKeys, pc, call, loc, firstSecret, last>>
storeVars == <<keySalt, seeds, signingKeys>>

NoCall == [op |-> "none", arg |-> 0, hash |-> 0, offset |-> 0, limit |-> 0]
\* handlePOSTSignV2 between its steps: the inputs as signed so far, the input
\* being signed, its flag `signed`, the signPolicy calls on the stack (each
\* with its loop's position and count), the error the last of them returned
\* and the vault calls made
NoRun == [inputs |-> <<>>, k |-> 0, signed |-> TRUE, frames |-> <<>>, inCall |-> FALSE,
          err |-> "nil", calls |-> <<>>]
\* the database file before it is created: sqlite opens a missing path as an
\* empty database
NoFile == [schema |-> {}, db_version |-> 0]
\* chain.New(baseURL): no consensus state cached (m.cs.Network is nil), the
\* thread group open, no poller; `fetched` is the poller's local cs, and
\* `explorer` the index of the state the explorer serves
NoManager == [cs |-> [index |-> 0, network |-> "nil"], closed |-> FALSE,
              poller |-> "none", fetched |-> 0, explorer |-> 0]
NoLoc == [seedID |-> 0, index |-> 0, aead |-> NoKey, salt |-> 0, run |-> NoRun,
          attempt |-> 0, err |-> "nil", file |-> NoFile, m |-> NoManager]
NoRet == [thread |-> 0, call |-> NoCall, err |-> ErrNone, val |-> 0, calls |-> <<>>,
          before |-> 0]

\* vault.New(s) on a freshly initialised database (init.sql)
Init ==
    /\ aead = NoKey
    /\ mac = NoKey
    /\ mu = 0
    /\ closed = FALSE
    /\ keySalt = 0
    /\ seeds = <<>>
    /\ signingKeys = {}
    /\ pc = [t \in Threads |-> "idle"]
    /\ call = [t \in Threads |-> NoCall]
    /\ loc = [t \in Threads |-> NoLoc]
    /\ firstSecret = 0
    /\ last = NoRet


\* ------------------------------------------------ the store (sqlite)
\* the ids of the rows of table seeds
StoredIDs == 1..Len(seeds)

\* checkSeedExists: SELECT true FROM seeds WHERE id=$1
checkSeedExists(id) == IF id \in StoredIDs THEN ErrNone ELSE ErrNotFound

\* the seed_index values of the signing_keys rows of a seed
IndicesOf(id) == {k.seed_index : k \in {r \in signingKeys : r.seed_id = id}}

\* the largest element of a non-empty set of naturals
Max(S) == CHOOSE x \in S : \A y \in S : y <= x

\* mutant: KeySalt reports no salt whatever is stored
KeySaltEmpty == IF keySalt # 0 THEN 0 ELSE keySalt

\* Store.KeySalt: SELECT key_salt FROM global_settings
KeySalt == keySalt

\* Store.SetKeySalt: UPDATE ... WHERE key_salt IS NULL; no row affected is ErrSaltSet
SetKeySaltErr == IF keySalt = 0 THEN ErrNone ELSE ErrSaltSet

\* mutant: BytesForVerify finds no row (ErrNotFound) whatever is stored
BytesForVerifyNotFound == {}

\* Store.BytesForVerify: SELECT encrypted_seed FROM seeds LIMIT 1, any one row;
\* the blobs it may return (none: ErrNotFound)
BytesForVerify == {seeds[i].encrypted_seed : i \in StoredIDs}

\* mutant: SigningKeyIndex without its WHERE public_key=$1
SigningKeyIndexAny(pk) == signingKeys

\* Store.SigningKeyIndex: the rows with this public key (none: ErrNotFound)
SigningKeyIndex(pk) == {r \in signingKeys : r.public_key = pk}

\* the rows of table ks (signing_keys) that belong to seed id
KeysOf(ks, id) == {r \in ks : r.seed_id = id}

\* mutant: NextIndex that reads no row
NextIndexStale(id) == 0

\* Store.NextIndex, after checkSeedExists: the highest seed_index + 1, or 0
NextIndex(id) == IF IndicesOf(id) = {} THEN 0 ELSE Max(IndicesOf(id)) + 1

\* mutant: ON CONFLICT (public_key) DO UPDATE, the row rewritten
AddKeyIndexReplace(id, pk, index) ==
    (signingKeys \ SigningKeyIndex(pk)) \cup
        {[public_key |-> pk, seed_id |-> id, seed_index |-> index]}

\* Store.AddKeyIndex: INSERT ... ON CONFLICT (public_key) DO NOTHING
AddKeyIndex(id, pk, index) ==
    IF SigningKeyIndex(pk) # {}
    THEN signingKeys
    ELSE signingKeys \cup {[public_key |-> pk, seed_id |-> id, seed_index |-> index]}

\* mutant: COUNT(*) in place of COALESCE(MAX(seed_index), 0)
seedMetaCount(ss, ks, id) ==
    [ID |-> id,
     LastIndex |-> Cardinality(KeysOf(ks, id)),
     CreatedAt |-> ss[id].date_created]

\* seedMeta(tx, id) over the tables ss and ks:
\* date_created, and COALESCE(MAX(seed_index), 0)
seedMeta(ss, ks, id) ==
    LET idx == {k.seed_index : k \in {r \in ks : r.seed_id = id}}
    IN [ID |-> id,
        LastIndex |-> IF idx = {} THEN 0 ELSE Max(idx),
        CreatedAt |-> ss[id].date_created]

\* Store.Seed: SELECT encrypted_seed FROM seeds WHERE id=$1 (id stored)
Seed(id) == seeds[id].encrypted_seed

\* the id of the seeds row with this seed_mac, or 0
IDOfMac(m) ==
    IF \E i \in StoredIDs : seeds[i].seed_mac = m
    THEN CHOOSE i \in StoredIDs : seeds[i].seed_mac = m
    ELSE 0

\* mutant: the INSERT without its ON CONFLICT clause and with no unique index
InsertSeedAlways(m, enc) ==
    Append(seeds, [seed_mac |-> m, encrypted_seed |-> enc,
                   date_created |-> Len(seeds) + 1])

\* Store.AddSeed's INSERT ... ON CONFLICT (seed_mac) DO UPDATE SET
\* seed_mac=EXCLUDED.seed_mac RETURNING id: the table afterwards.  A blob that
\* is already stored under another seed_mac violates UNIQUE(encrypted_seed) and
\* the insert fails, leaving the table as it was.
InsertSeed(m, enc) ==
    IF IDOfMac(m) # 0 \/ (\E i \in StoredIDs : seeds[i].encrypted_seed = enc)
    THEN seeds
    ELSE Append(seeds, [seed_mac |-> m, encrypted_seed |-> enc,
                        date_created |-> Len(seeds) + 1])

\* whether that INSERT fails ("failed to insert seed")
InsertSeedFails(m, enc) ==
    IDOfMac(m) = 0 /\ (\E i \in StoredIDs : seeds[i].encrypted_seed = enc)

ErrInsert == "failed to insert seed"

\* the first n elements of a sequence after skipping k
Page(q, k, n) == SubSeq(q, k + 1, IF k + n < Len(q) THEN k + n ELSE Len(q))

\* Store.SeedKeys, after checkSeedExists: SELECT public_key ... ORDER BY
\* seed_index ASC LIMIT $2 OFFSET $3
RECURSIVE KeysFrom(_, _)
KeysFrom(id, i) ==
    IF i > MaxIndex + 1 THEN <<>>
    ELSE LET here == {r \in signingKeys : r.seed_id = id /\ r.seed_index = i}
         IN (IF here = {} THEN <<>> ELSE <<(CHOOSE r \in here : TRUE).public_key>>)
            \o KeysFrom(id, i + 1)

SeedKeys(id, offset, limit) == Page(KeysFrom(id, 0), offset, limit)

\* Store.Seeds: the seeds' metadata ordered by creation time, paginated
Seeds(limit, offset) ==
    Page([i \in StoredIDs |-> seedMeta(seeds, signingKeys, i)], offset, limit)


\* ------------------------------------------------------------ the vault
\* mutant: isLocked never reports a locked vault
isLockedNever == ErrNone

\* Vault.isLocked: nil unless both the AEAD and the MAC are installed
isLocked == IF aead # NoKey /\ mac # NoKey THEN ErrNone ELSE ErrLocked

\* the vault and the store as a handler's step finds them
Snapshot ==
    [aead |-> aead, mac |-> mac, mu |-> mu, keySalt |-> keySalt, seeds |-> seeds,
     signingKeys |-> signingKeys]

\* a handler of thread t returns err and val, having made the store calls
\* `calls`; the step's own starting state is recorded with the result
Return(t, c, err, val, calls) ==
    /\ last' = [thread |-> t, call |-> c, err |-> err, val |-> val, calls |-> calls,
                before |-> Snapshot]
    /\ pc' = [pc EXCEPT ![t] = "idle"]
    /\ call' = [call EXCEPT ![t] = NoCall]
    /\ loc' = [loc EXCEPT ![t] = NoLoc]

\* the head of every handler but Sign: tg.Add(), then v.mu.Lock().  A stopped
\* thread group refuses the call; a held mutex blocks it.
Enter(t, c) ==
    /\ pc[t] = "idle"
    /\ IF closed
       THEN /\ Return(t, c, IF c.op = "Lock" THEN ErrNone ELSE ErrClosed, 0, <<>>)
            /\ UNCHANGED <<aead, mac, mu, closed, storeVars, firstSecret>>
       ELSE /\ mu = 0
            /\ mu' = t
            /\ pc' = [pc EXCEPT ![t] = "crit"]
            /\ call' = [call EXCEPT ![t] = c]
            /\ last' = NoRet
            /\ UNCHANGED <<aead, mac, closed, storeVars, loc, firstSecret>>

\* thread t is in the body of handler op, holding the mutex
InBody(t, op) == pc[t] = "crit" /\ call[t].op = op /\ mu = t

\* the deferred v.mu.Unlock() and done(), and the return
Leave(t, err, val, calls) ==
    /\ mu' = 0
    /\ Return(t, call[t], err, val, calls)

BeginUnlock(t) ==
    \E secret \in Secrets : Enter(t, [NoCall EXCEPT !.op = "Unlock", !.arg = secret])

\* mutant: Unlock without its check for an installed key
alreadyUnlockedUnchecked == FALSE

\* Unlock's first check: both the AEAD and the MAC are installed
alreadyUnlocked == aead # NoKey /\ mac # NoKey

\* mutant: Unlock installs the derived key without opening a stored blob
VerifyKeySkipped(encryptionKey) == {TRUE}

\* mutant: Unlock treats BytesForVerify's ErrNotFound as a failed verification
VerifyKeyNeedsBlob(encryptionKey) == {OpenOK(encryptionKey, buf) : buf \in BytesForVerify} \cup
    (IF BytesForVerify = {} THEN {FALSE} ELSE {})

\* the verification step of Unlock: whether the blob BytesForVerify returned
\* opens under the derived key, over every blob it may return; with no seed
\* stored (ErrNotFound) the key is accepted as it is
VerifyKey(encryptionKey) ==
    IF BytesForVerify = {}
    THEN {TRUE}
    ELSE {OpenOK(encryptionKey, buf) : buf \in BytesForVerify}

\* Vault.Unlock(secret), from the check for an installed key on
DoUnlock(t) ==
    /\ InBody(t, "Unlock")
    /\ UNCHANGED <<closed, seeds, signingKeys>>
    /\ IF alreadyUnlocked
       THEN /\ Leave(t, ErrUnlocked, 0, <<>>)
            /\ UNCHANGED <<aead, mac, keySalt, firstSecret>>
       ELSE IF KeySalt = 0 /\ SetKeySaltErr # ErrNone
       THEN /\ Leave(t, SetKeySaltErr, 0, <<"KeySalt", "SetKeySalt">>)
            /\ UNCHANGED <<aead, mac, keySalt, firstSecret>>
       ELSE \E fresh \in Salts :
            \* frand.Bytes(32) is drawn, and SetKeySalt called, only when no salt
            \* is stored
            /\ KeySalt = 0 \/ fresh = KeySalt
            /\ LET salt == IF KeySalt = 0 THEN fresh ELSE KeySalt
                   encryptionKey == IDKey(call[t].arg, salt)
                   calls == (IF KeySalt = 0 THEN <<"KeySalt", "SetKeySalt">>
                             ELSE <<"KeySalt">>) \o <<"BytesForVerify">>
               IN /\ keySalt' = salt
                  /\ \E verified \in VerifyKey(encryptionKey) :
                     IF verified
                     THEN /\ aead' = encryptionKey
                          /\ mac' = encryptionKey
                          /\ firstSecret' = IF firstSecret = 0 THEN call[t].arg
                                             ELSE firstSecret
                          /\ Leave(t, ErrNone, 0, calls)
                     ELSE /\ Leave(t, ErrIncorrectSecret, 0, calls)
                          /\ UNCHANGED <<aead, mac, firstSecret>>

BeginLock(t) == Enter(t, [NoCall EXCEPT !.op = "Lock"])

\* mutant: Lock clears the AEAD and leaves the MAC installed
DoLockAeadOnly(t) ==
    /\ InBody(t, "Lock")
    /\ aead' = NoKey
    /\ Leave(t, ErrNone, 0, <<>>)
    /\ UNCHANGED <<mac, closed, storeVars, firstSecret>>

\* Vault.Lock(): v.aead = nil; v.mac = nil
DoLock(t) ==
    /\ InBody(t, "Lock")
    /\ aead' = NoKey
    /\ mac' = NoKey
    /\ Leave(t, ErrNone, 0, <<>>)
    /\ UNCHANGED <<closed, storeVars, firstSecret>>


BeginAddSeed(t) ==
    \E seed \in PlainSeeds : Enter(t, [NoCall EXCEPT !.op = "AddSeed", !.arg = seed])

\* mutant: AddSeed without the isLocked check; on a Locked vault v.mac.Reset()
\* is a call on a nil interface, and the deferred Unlock runs as it panics
DoAddSeedUnchecked(t) ==
    /\ InBody(t, "AddSeed")
    /\ UNCHANGED <<aead, mac, closed, keySalt, signingKeys, firstSecret>>
    /\ IF mac = NoKey \/ aead = NoKey
       THEN /\ Leave(t, Panic, 0, <<>>)
            /\ UNCHANGED seeds
       ELSE \E nonce \in Nonces :
            LET m == MacSum(mac, call[t].arg)
                encrypted == Seal(aead, nonce, call[t].arg)
            IN /\ seeds' = InsertSeed(m, encrypted)
               /\ Leave(t, ErrNone,
                        seedMeta(seeds', signingKeys,
                                 IF IDOfMac(m) # 0 THEN IDOfMac(m) ELSE Len(seeds')),
                        <<"AddSeed">>)

\* Vault.AddSeed(seed), from the isLocked check on, with Store.AddSeed
DoAddSeed(t) ==
    /\ InBody(t, "AddSeed")
    /\ UNCHANGED <<aead, mac, closed, keySalt, signingKeys, firstSecret>>
    /\ IF isLocked # ErrNone
       THEN /\ Leave(t, isLocked, 0, <<>>)
            /\ UNCHANGED seeds
       ELSE \E nonce \in Nonces :
            LET m == MacSum(mac, call[t].arg)
                encrypted == Seal(aead, nonce, call[t].arg)
            IN /\ seeds' = InsertSeed(m, encrypted)
               /\ IF InsertSeedFails(m, encrypted)
                  THEN Leave(t, ErrInsert, 0, <<"AddSeed">>)
                  ELSE Leave(t, ErrNone,
                             seedMeta(seeds', signingKeys,
                                      IF IDOfMac(m) # 0 THEN IDOfMac(m) ELSE Len(seeds')),
                             <<"AddSeed">>)

BeginSeeds(t) ==
    \E limit \in Limits, offset \in Offsets :
        Enter(t, [NoCall EXCEPT !.op = "Seeds", !.limit = limit, !.offset = offset])

\* Vault.Seeds(limit, offset)
DoSeeds(t) ==
    /\ InBody(t, "Seeds")
    /\ Leave(t, ErrNone, Seeds(call[t].limit, call[t].offset), <<"Seeds">>)
    /\ UNCHANGED <<aead, mac, closed, storeVars, firstSecret>>

BeginSeedMeta(t) ==
    \E id \in SeedIDs : Enter(t, [NoCall EXCEPT !.op = "SeedMeta", !.arg = id])

\* Vault.SeedMeta(id), with Store.SeedMeta
DoSeedMeta(t) ==
    /\ InBody(t, "SeedMeta")
    /\ IF checkSeedExists(call[t].arg) # ErrNone
       THEN Leave(t, ErrNotFound, 0, <<"SeedMeta">>)
       ELSE Leave(t, ErrNone, seedMeta(seeds, signingKeys, call[t].arg), <<"SeedMeta">>)
    /\ UNCHANGED <<aead, mac, closed, storeVars, firstSecret>>

BeginSeedKeys(t) ==
    \E id \in SeedIDs, limit \in Limits, offset \in Offsets :
        Enter(t, [NoCall EXCEPT !.op = "SeedKeys", !.arg = id,
                                !.limit = limit, !.offset = offset])

\* Vault.SeedKeys(id, offset, limit), with Store.SeedKeys
DoSeedKeys(t) ==
    /\ InBody(t, "SeedKeys")
    /\ IF checkSeedExists(call[t].arg) # ErrNone
       THEN Leave(t, ErrNotFound, <<>>, <<"SeedKeys">>)
       ELSE Leave(t, ErrNone, SeedKeys(call[t].arg, call[t].offset, call[t].limit),
                  <<"SeedKeys">>)
    /\ UNCHANGED <<aead, mac, closed, storeVars, firstSecret>>


\* mutant: derivePrivateKey that derives the seed's first key at every index
derivePrivateKeyFirst(id, index) ==
    IF isLocked # ErrNone THEN [err |-> isLocked, sk |-> 0, calls |-> <<>>]
    ELSE IF checkSeedExists(id) # ErrNone
    THEN [err |-> ErrNotFound, sk |-> 0, calls |-> <<"Seed">>]
    ELSE IF ~OpenOK(aead, Seed(id))
    THEN [err |-> ErrDecrypt, sk |-> 0, calls |-> <<"Seed">>]
    ELSE [err |-> ErrNone, sk |-> KeyFromSeed(OpenPlain(aead, Seed(id)), 0),
          calls |-> <<"Seed">>]

\* Vault.derivePrivateKey(id, index) as its caller NextKey runs it, under the
\* mutex: the isLocked check, Store.Seed, aead.Open, wallet.KeyFromSeed
derivePrivateKey(id, index) ==
    IF isLocked # ErrNone THEN [err |-> isLocked, sk |-> 0, calls |-> <<>>]
    ELSE IF checkSeedExists(id) # ErrNone
    THEN [err |-> ErrNotFound, sk |-> 0, calls |-> <<"Seed">>]
    ELSE IF ~OpenOK(aead, Seed(id))
    THEN [err |-> ErrDecrypt, sk |-> 0, calls |-> <<"Seed">>]
    ELSE [err |-> ErrNone, sk |-> KeyFromSeed(OpenPlain(aead, Seed(id)), index),
          calls |-> <<"Seed">>]

\* the index is capped at MaxIndex: a seed whose next index is beyond it gets
\* no further key
BeginNextKey(t) ==
    \E id \in SeedIDs :
        /\ checkSeedExists(id) = ErrNone => NextIndex(id) <= MaxIndex
        /\ Enter(t, [NoCall EXCEPT !.op = "NextKey", !.arg = id])

\* Vault.NextKey(id): Store.NextIndex, derivePrivateKey, Store.AddKeyIndex
DoNextKey(t) ==
    /\ InBody(t, "NextKey")
    /\ UNCHANGED <<aead, mac, closed, keySalt, seeds, firstSecret>>
    /\ LET id == call[t].arg
           index == NextIndex(id)
           d == derivePrivateKey(id, index)
       IN IF checkSeedExists(id) # ErrNone
          THEN /\ Leave(t, ErrNotFound, 0, <<"NextIndex">>)
               /\ UNCHANGED signingKeys
          ELSE IF d.err # ErrNone
          THEN /\ Leave(t, d.err, 0, <<"NextIndex">> \o d.calls)
               /\ UNCHANGED signingKeys
          ELSE /\ signingKeys' = AddKeyIndex(id, PublicKey(d.sk), index)
               /\ Leave(t, ErrNone, PublicKey(d.sk),
                        <<"NextIndex">> \o d.calls \o <<"AddKeyIndex">>)

\* Vault.Sign(pk, hash) up to the call of derivePrivateKey: tg.Add and
\* Store.SigningKeyIndex.  No mutex is taken.
SignLookup(t) ==
    /\ pc[t] = "idle"
    /\ UNCHANGED <<aead, mac, mu, closed, storeVars, firstSecret>>
    /\ \E pk \in AllPKs, hash \in Hashes :
       LET c == [NoCall EXCEPT !.op = "Sign", !.arg = pk, !.hash = hash]
       IN IF closed THEN Return(t, c, ErrClosed, 0, <<>>)
          ELSE IF SigningKeyIndex(pk) = {}
          THEN Return(t, c, ErrNotFound, 0, <<"SigningKeyIndex">>)
          ELSE \E r \in SigningKeyIndex(pk) :
               /\ pc' = [pc EXCEPT ![t] = "derive"]
               /\ call' = [call EXCEPT ![t] = c]
               /\ loc' = [loc EXCEPT ![t] = [NoLoc EXCEPT !.seedID = r.seed_id,
                                                          !.index = r.seed_index]]
               /\ last' = NoRet

\* derivePrivateKey called by Sign: the isLocked check, reading v.aead and
\* v.mac without the mutex
SignIsLocked(t) ==
    /\ pc[t] = "derive"
    /\ UNCHANGED <<aead, mac, mu, closed, storeVars, firstSecret>>
    /\ IF isLocked # ErrNone
       THEN Return(t, call[t], isLocked, 0, <<"SigningKeyIndex">>)
       ELSE /\ pc' = [pc EXCEPT ![t] = "open"]
            /\ last' = NoRet
            /\ UNCHANGED <<call, loc>>

\* derivePrivateKey called by Sign: Store.Seed, then the read of v.aead for
\* v.aead.NonceSize() and v.aead.Open; a nil v.aead panics
SignLoadAead(t) ==
    /\ pc[t] = "open"
    /\ UNCHANGED <<aead, mac, mu, closed, storeVars, firstSecret>>
    /\ IF checkSeedExists(loc[t].seedID) # ErrNone
       THEN Return(t, call[t], ErrNotFound, 0, <<"SigningKeyIndex", "Seed">>)
       ELSE IF aead = NoKey
       THEN Return(t, call[t], Panic, 0, <<"SigningKeyIndex", "Seed">>)
       ELSE /\ pc' = [pc EXCEPT ![t] = "opening"]
            /\ loc' = [loc EXCEPT ![t].aead = aead]
            /\ last' = NoRet
            /\ UNCHANGED call

\* derivePrivateKey called by Sign: aead.Open with the AEAD that was read,
\* wallet.KeyFromSeed, and Sign's sk.SignHash(hash)
SignOpen(t) ==
    /\ pc[t] = "opening"
    /\ UNCHANGED <<aead, mac, mu, closed, storeVars, firstSecret>>
    /\ LET encryptedSeed == Seed(loc[t].seedID)
       IN IF ~OpenOK(loc[t].aead, encryptedSeed)
          THEN Return(t, call[t], ErrDecrypt, 0, <<"SigningKeyIndex", "Seed">>)
          ELSE Return(t, call[t], ErrNone,
                      SignHash(KeyFromSeed(OpenPlain(loc[t].aead, encryptedSeed),
                                           loc[t].index), call[t].hash),
                      <<"SigningKeyIndex", "Seed">>)

\* ------------------------------------------------------ the specification
Next ==
    \E t \in Threads :
        \/ BeginUnlock(t) \/ DoUnlock(t)
        \/ BeginLock(t) \/ DoLock(t)
        \/ BeginAddSeed(t) \/ DoAddSeed(t)
        \/ BeginSeeds(t) \/ DoSeeds(t)
        \/ BeginSeedMeta(t) \/ DoSeedMeta(t)
        \/ BeginSeedKeys(t) \/ DoSeedKeys(t)
        \/ BeginNextKey(t) \/ DoNextKey(t)
        \/ SignLookup(t) \/ SignIsLocked(t) \/ SignLoadAead(t) \/ SignOpen(t)

Spec == Init /\ [][Next]_vars


\* ------------------------------------------------------------ Close
\* Vault.Close is tg.Stop(): the thread group is closed, so that tg.Add
\* fails from then on, and Stop waits until every done() of the calls that
\* were added has run.  A call that is waiting for the mutex after its
\* tg.Add is taken here as not yet added.
BeginClose(t) ==
    /\ pc[t] = "idle"
    /\ closed' = TRUE
    /\ pc' = [pc EXCEPT ![t] = "stopping"]
    /\ call' = [call EXCEPT ![t] = [NoCall EXCEPT !.op = "Close"]]
    /\ last' = NoRet
    /\ UNCHANGED <<aead, mac, mu, storeVars, loc, firstSecret>>

\* Close returning at once, with calls still running
CloseReturnNoWait(t) ==
    /\ pc[t] = "stopping"
    /\ Return(t, call[t], ErrNone, 0, <<>>)
    /\ UNCHANGED <<aead, mac, mu, closed, storeVars, firstSecret>>

\* tg.Stop's wait is over and Close returns nil
CloseReturn(t) ==
    /\ pc[t] = "stopping"
    /\ \A u \in Threads : pc[u] \in {"idle", "stopping"}
    /\ Return(t, call[t], ErrNone, 0, <<>>)
    /\ UNCHANGED <<aead, mac, mu, closed, storeVars, firstSecret>>

NextClose ==
    \E t \in Threads :
        \/ BeginUnlock(t) \/ DoUnlock(t)
        \/ BeginLock(t) \/ DoLock(t)
        \/ BeginAddSeed(t) \/ DoAddSeed(t)
        \/ BeginSeeds(t) \/ DoSeeds(t)
        \/ BeginSeedMeta(t) \/ DoSeedMeta(t)
        \/ BeginSeedKeys(t) \/ DoSeedKeys(t)
        \/ BeginNextKey(t) \/ DoNextKey(t)
        \/ SignLookup(t) \/ SignIsLocked(t) \/ SignLoadAead(t) \/ SignOpen(t)
        \/ BeginClose(t) \/ CloseReturn(t)

SpecClose == Init /\ [][NextClose]_vars

\* ------------------------------------- the store with a second writer
\* Unlock reads the salt (Store.KeySalt) and writes it (Store.SetKeySalt) in
\* two transactions.  The vault's mutex keeps its own goroutines apart, not
\* another user of the same database, whose SetKeySalt may fall in between.
NumForeignSalts == 1

\* the salts another process draws: frand never repeats this vault's
ForeignSalts == (NumSalts + 1)..(NumSalts + NumForeignSalts)

\* mutant: the UPDATE without its WHERE key_salt IS NULL
SetKeySaltOverwrites(salt) == salt

\* Store.SetKeySalt(salt): column key_salt afterwards
SetKeySalt(salt) == IF keySalt = 0 THEN salt ELSE keySalt

\* Store.SetKeySalt(salt) called by another user of the database
OtherSetKeySalt ==
    \E salt \in ForeignSalts :
        /\ keySalt' = SetKeySalt(salt)
        /\ last' = [thread |-> 0,
                    call |-> [NoCall EXCEPT !.op = "SetKeySalt", !.arg = salt],
                    err |-> SetKeySaltErr, val |-> 0, calls |-> <<"SetKeySalt">>,
                    before |-> Snapshot]
        /\ UNCHANGED <<aead, mac, mu, closed, seeds, signingKeys, pc, call, loc,
                       firstSecret>>

\* Vault.Unlock(secret) up to the return of store.KeySalt()
UnlockKeySalt(t) ==
    /\ InBody(t, "Unlock")
    /\ UNCHANGED <<aead, mac, closed, storeVars, firstSecret>>
    /\ IF alreadyUnlocked
       THEN Leave(t, ErrUnlocked, 0, <<>>)
       ELSE /\ pc' = [pc EXCEPT ![t] = "salt"]
            /\ loc' = [loc EXCEPT ![t].salt = KeySalt]
            /\ last' = NoRet
            /\ UNCHANGED <<mu, call>>

\* Vault.Unlock(secret) from the test of the salt it read on: SetKeySalt if
\* none was read, argon2.IDKey, BytesForVerify, aead.Open, the installation
UnlockDerive(t) ==
    /\ pc[t] = "salt" /\ mu = t
    /\ UNCHANGED <<closed, seeds, signingKeys>>
    /\ IF loc[t].salt = 0 /\ SetKeySaltErr # ErrNone
       THEN /\ Leave(t, SetKeySaltErr, 0, <<"KeySalt", "SetKeySalt">>)
            /\ UNCHANGED <<aead, mac, keySalt, firstSecret>>
       ELSE \E salt \in (IF loc[t].salt = 0 THEN Salts ELSE {loc[t].salt}) :
            LET encryptionKey == IDKey(call[t].arg, salt)
                calls == (IF loc[t].salt = 0 THEN <<"KeySalt", "SetKeySalt">>
                          ELSE <<"KeySalt">>) \o <<"BytesForVerify">>
            IN /\ keySalt' = IF loc[t].salt = 0 THEN SetKeySalt(salt) ELSE keySalt
               /\ \E verified \in VerifyKey(encryptionKey) :
                  IF verified
                  THEN /\ aead' = encryptionKey
                       /\ mac' = encryptionKey
                       /\ firstSecret' = IF firstSecret = 0 THEN call[t].arg
                                          ELSE firstSecret
                       /\ Leave(t, ErrNone, 0, calls)
                  ELSE /\ Leave(t, ErrIncorrectSecret, 0, calls)
                       /\ UNCHANGED <<aead, mac, firstSecret>>

NextSalt ==
    \/ \E t \in Threads :
        \/ BeginUnlock(t) \/ UnlockKeySalt(t) \/ UnlockDerive(t)
        \/ BeginLock(t) \/ DoLock(t)
        \/ BeginAddSeed(t) \/ DoAddSeed(t)
    \/ OtherSetKeySalt

SpecSalt == Init /\ [][NextSalt]_vars


\* ------------------------------------------------ the legacy phrase codec
\* bytesToInt and intToBytes work in base 256 on big.Int, which has no width.
\* The arrays here are NumCodecBytes long, so that every integer fits TLC's,
\* and their bytes are the ends and the middle of a byte's range.
CodecBase == 256

NumCodecBytes == 3

CodecBytes == {0, 1, 127, 254, 255}

CodecInputs == [1..NumCodecBytes -> CodecBytes]

\* the loop of bytesToInt from index i on (bs[i] is the model's bs[i + 1])
RECURSIVE bytesToIntFrom(_, _, _, _)
RECURSIVE intToBytesPlain(_)
RECURSIVE intToBytes(_)
bytesToIntFrom(bs, i, exp, result) ==
    IF i < Len(bs)
    THEN LET tmp == (bs[i + 1] + 1) * exp
         IN bytesToIntFrom(bs, i + 1, exp * CodecBase, result + tmp)
    ELSE result

\* bytesToInt(bs)
bytesToInt(bs) == bytesToIntFrom(bs, 0, 1, -1)

\* mutant: intToBytes in plain base 256, without its bi.Sub(bi, base)
intToBytesPlain(bi) ==
    IF bi >= CodecBase
    THEN <<bi % CodecBase>> \o intToBytesPlain(bi \div CodecBase)
    ELSE <<bi % CodecBase>>

\* intToBytes(bi): the loop, then the last byte
intToBytes(bi) ==
    IF bi >= CodecBase
    THEN <<bi % CodecBase>> \o intToBytes((bi - CodecBase) \div CodecBase)
    ELSE <<bi % CodecBase>>

\* a call of bytesToInt on an array
CallBytesToInt(t) ==
    /\ pc[t] = "idle"
    /\ \E bs \in CodecInputs :
        Return(t, [NoCall EXCEPT !.op = "bytesToInt", !.arg = bs], ErrNone,
               bytesToInt(bs), <<>>)
    /\ UNCHANGED <<aead, mac, mu, closed, storeVars, firstSecret>>

\* a call of intToBytes on the integer bytesToInt has just returned
CallIntToBytes(t) ==
    /\ pc[t] = "idle" /\ last.call.op = "bytesToInt"
    /\ Return(t, [NoCall EXCEPT !.op = "intToBytes", !.arg = last.val], ErrNone,
              intToBytes(last.val), <<>>)
    /\ UNCHANGED <<aead, mac, mu, closed, storeVars, firstSecret>>

NextCodec == CallBytesToInt(1) \/ CallIntToBytes(1)

SpecCodec == Init /\ [][NextCodec]_vars


\* -------------------------------------------------- Unlock called at once
\* Several goroutines call Unlock on a locked vault at the same moment: each
\* passes tg.Add() and queues on v.mu; the bodies then run one after another.
NumUnlockers == 3

Unlockers == 1..NumUnlockers

\* the secrets that open every stored seed; any secret with none stored
CorrectSecrets ==
    {secret \in Secrets :
        \A i \in StoredIDs : OpenOK(IDKey(secret, keySalt), seeds[i].encrypted_seed)}

\* Unlock(secret) up to v.mu.Lock(): tg.Add() has succeeded and the goroutine
\* waits for the mutex.  The calls considered are those made while the vault
\* is locked, with a correct secret.
UnlockCall(t) ==
    /\ pc[t] = "idle" /\ ~closed
    /\ aead = NoKey \/ mac = NoKey
    /\ \E secret \in CorrectSecrets :
           call' = [call EXCEPT ![t] = [NoCall EXCEPT !.op = "Unlock", !.arg = secret]]
    /\ pc' = [pc EXCEPT ![t] = "wait"]
    /\ last' = NoRet
    /\ UNCHANGED <<aead, mac, mu, closed, storeVars, loc, firstSecret>>

\* v.mu.Lock() returns to one of the waiting goroutines
UnlockAcquire(t) ==
    /\ pc[t] = "wait" /\ mu = 0
    /\ mu' = t
    /\ pc' = [pc EXCEPT ![t] = "crit"]
    /\ last' = NoRet
    /\ UNCHANGED <<aead, mac, closed, storeVars, call, loc, firstSecret>>

\* a locked vault after vault.New: on a fresh database, or on one that holds
\* the salt and a seed of an earlier run
InitUnlock ==
    /\ aead = NoKey /\ mac = NoKey /\ mu = 0 /\ closed = FALSE
    /\ signingKeys = {}
    /\ \/ keySalt = 0 /\ seeds = <<>>
       \/ \E salt \in Salts :
            /\ keySalt = salt
            /\ \/ seeds = <<>>
               \/ \E secret \in Secrets, nonce \in Nonces, seed \in PlainSeeds :
                    seeds = <<[seed_mac |-> MacSum(IDKey(secret, salt), seed),
                               encrypted_seed |-> Seal(IDKey(secret, salt), nonce, seed),
                               date_created |-> 1]>>
    /\ pc = [t \in Unlockers |-> "idle"]
    /\ call = [t \in Unlockers |-> NoCall]
    /\ loc = [t \in Unlockers |-> NoLoc]
    /\ firstSecret = 0
    /\ last = NoRet

NextUnlock ==
    \E t \in Unlockers : UnlockCall(t) \/ UnlockAcquire(t) \/ DoUnlock(t)

SpecUnlock == InitUnlock /\ [][NextUnlock]_vars


\* ----------------------------------------------- the store called directly
\* The methods of Store as any caller may use them, with arguments the vault
\* itself would not pass.
\* sqlite's error for a signing_keys row whose seed_id names no seeds row
\* (the database is opened with _foreign_keys=true)
ErrForeignKey == "FOREIGN KEY constraint failed"

\* the keys under which callers seal and MAC their seeds
StoreKeys == {IDKey(secret, salt) : secret \in Secrets, salt \in Salts}

\* a Store method returns to its caller, which is no thread of the vault
StoreReturn(op, arg, err, val) ==
    /\ last' = [thread |-> 0, call |-> [NoCall EXCEPT !.op = op, !.arg = arg],
                err |-> err, val |-> val, calls |-> <<op>>, before |-> Snapshot]
    /\ UNCHANGED <<aead, mac, mu, closed, pc, call, loc, firstSecret>>

\* Store.AddSeed(mac, encryptedSeed); table seeds is capped at the ids a
\* caller may name
StoreAddSeed ==
    \E key \in StoreKeys, nonce \in Nonces, seed \in PlainSeeds :
        LET m == MacSum(key, seed)
            encrypted == Seal(key, nonce, seed)
        IN /\ IDOfMac(m) # 0 \/ Len(seeds) < NumPlainSeeds
           /\ seeds' = InsertSeed(m, encrypted)
           /\ IF InsertSeedFails(m, encrypted)
              THEN StoreReturn("AddSeed", seed, ErrInsert, 0)
              ELSE StoreReturn("AddSeed", seed, ErrNone,
                               seedMeta(seeds', signingKeys,
                                        IF IDOfMac(m) # 0 THEN IDOfMac(m)
                                        ELSE Len(seeds')))
           /\ UNCHANGED <<keySalt, signingKeys>>

\* Store.AddKeyIndex(id, pk, index): a public key that is stored conflicts
\* and nothing is inserted; otherwise the row needs its seeds row
StoreAddKeyIndex ==
    \E id \in SeedIDs, pk \in AllPKs, index \in Indices :
        LET err == IF SigningKeyIndex(pk) = {} /\ checkSeedExists(id) # ErrNone
                   THEN ErrForeignKey ELSE ErrNone
        IN /\ signingKeys' = IF err = ErrNone THEN AddKeyIndex(id, pk, index)
                             ELSE signingKeys
           /\ StoreReturn("AddKeyIndex", [id |-> id, pk |-> pk, index |-> index],
                          err, 0)
           /\ UNCHANGED <<keySalt, seeds>>

NextStore == StoreAddSeed \/ StoreAddKeyIndex

SpecStore == Init /\ [][NextStore]_vars

\* ------------------------------------------------- opening the database
\* A schema is the set of its tables and indices as sqlite_schema and PRAGMA
\* table_info list them: a table with its columns (name, type, NOT NULL,
\* primary key), an index with its table and, unless sqlite made it for a
\* UNIQUE or PRIMARY KEY column, its columns.  CHECK constraints are in
\* neither listing.
\* init.sql
InitSQL ==
    { [type |-> "table", name |-> "seeds",
       columns |-> {"id INTEGER pk", "seed_mac BLOB notnull",
                    "encrypted_seed BLOB notnull", "date_created INTEGER notnull"}],
      [type |-> "index", name |-> "sqlite_autoindex_seeds_1", tbl_name |-> "seeds",
       sql |-> ""],
      [type |-> "index", name |-> "sqlite_autoindex_seeds_2", tbl_name |-> "seeds",
       sql |-> ""],
      [type |-> "index", name |-> "seeds_date_created_idx", tbl_name |-> "seeds",
       sql |-> "(date_created ASC)"],
      [type |-> "table", name |-> "signing_keys",
       columns |-> {"public_key BLOB pk", "seed_id INTEGER notnull",
                    "seed_index INTEGER notnull"}],
      [type |-> "index", name |-> "sqlite_autoindex_signing_keys_1",
       tbl_name |-> "signing_keys", sql |-> ""],
      [type |-> "index", name |-> "signing_keys_seed_id_idx",
       tbl_name |-> "signing_keys", sql |-> "(seed_id)"],
      [type |-> "index", name |-> "signing_keys_seed_id_seed_index_idx",
       tbl_name |-> "signing_keys", sql |-> "(seed_id, seed_index ASC)"],
      [type |-> "table", name |-> "global_settings",
       columns |-> {"id INTEGER notnull pk default 0", "db_version INTEGER notnull",
                    "key_salt BLOB"}] }

\* the version 1 database TestMigrationConsistency writes before it calls
\* OpenDatabase: initialSchema and the global_settings row
initialSchema ==
    { [type |-> "table", name |-> "global_settings",
       columns |-> {"id INTEGER notnull pk default 0", "db_version INTEGER notnull",
                    "key_salt BLOB"}] }

\* the init.sql of the release before migration 1: no index on date_created,
\* and the tables of a syncer
EarlierInitSQL ==
    (InitSQL \ {[type |-> "index", name |-> "seeds_date_created_idx",
                 tbl_name |-> "seeds", sql |-> "(date_created ASC)"]})
    \cup
    { [type |-> "table", name |-> "syncer_peers",
       columns |-> {"peer_address TEXT notnull pk", "first_seen INTEGER notnull"}],
      [type |-> "index", name |-> "sqlite_autoindex_syncer_peers_1",
       tbl_name |-> "syncer_peers", sql |-> ""],
      [type |-> "table", name |-> "syncer_bans",
       columns |-> {"net_cidr TEXT notnull pk", "expiration INTEGER notnull",
                    "reason TEXT notnull"}],
      [type |-> "index", name |-> "sqlite_autoindex_syncer_bans_1",
       tbl_name |-> "syncer_bans", sql |-> ""],
      [type |-> "index", name |-> "syncer_bans_expiration_idx",
       tbl_name |-> "syncer_bans", sql |-> "(expiration)"] }

\* migrations[i] run on a schema: the schema it leaves, or the error of its
\* statement.  Migration 1 is CREATE INDEX seeds_date_created_idx ON seeds
\* (date_created ASC).
migrations(i, schema) ==
    IF ~\E o \in schema : o.type = "table" /\ o.name = "seeds"
    THEN [err |-> "no such table: main.seeds", schema |-> schema]
    ELSE IF \E o \in schema : o.type = "index" /\ o.name = "seeds_date_created_idx"
    THEN [err |-> "index seeds_date_created_idx already exists", schema |-> schema]
    ELSE [err |-> ErrNone,
          schema |-> schema \cup {[type |-> "index", name |-> "seeds_date_created_idx",
                                   tbl_name |-> "seeds", sql |-> "(date_created ASC)"]}]

\* len(migrations)
NumMigrations == 1

\* the files OpenDatabase is called on: a path with no file, the test's
\* version 1 database, a database created from the earlier init.sql, and a
\* database an earlier OpenDatabase created
Files ==
    {NoFile, [schema |-> initialSchema, db_version |-> 1],
     [schema |-> EarlierInitSQL, db_version |-> 1],
     [schema |-> InitSQL, db_version |-> NumMigrations + 1]}

\* OpenDatabase(fp) returns to its caller
OpenReturn(t, err) ==
    /\ last' = [thread |-> t, call |-> call'[t], err |-> err, val |-> loc'[t].file,
                calls |-> call'[t].arg.applied, before |-> Snapshot]
    /\ pc' = [pc EXCEPT ![t] = IF err = ErrNone THEN "open" ELSE "idle"]

\* OpenDatabase(fp) and Store.init up to the first migration: a database
\* without a version is created from init.sql at the current version; one at
\* the current version is left as it is; one beyond it is refused
OpenDatabase(t) ==
    LET file == loc[t].file
        target == NumMigrations + 1
    IN /\ pc[t] = "idle"
       /\ call' = [call EXCEPT ![t] =
                     [NoCall EXCEPT !.op = "OpenDatabase",
                                    !.arg = [file |-> file, applied |-> <<>>]]]
       /\ UNCHANGED <<aead, mac, mu, closed, storeVars, firstSecret>>
       /\ IF file.db_version = 0
          THEN /\ loc' = [loc EXCEPT ![t].file =
                                       [schema |-> InitSQL, db_version |-> target]]
               /\ OpenReturn(t, ErrNone)
          ELSE IF file.db_version < target
          THEN /\ pc' = [pc EXCEPT ![t] = "upgrade"]
               /\ last' = NoRet
               /\ UNCHANGED loc
          ELSE /\ UNCHANGED loc
               /\ OpenReturn(t, IF file.db_version = target THEN ErrNone
                                ELSE "database version is newer than expected")

\* Store.upgradeDatabase, a step at a time: the next pending migration and the
\* new db_version in one transaction, rolled back when the migration fails
upgradeDatabase(t) ==
    LET file == loc[t].file
        m == migrations(file.db_version, file.schema)
    IN /\ pc[t] = "upgrade"
       /\ UNCHANGED <<aead, mac, mu, closed, storeVars, firstSecret>>
       /\ IF m.err # ErrNone
          THEN /\ UNCHANGED <<call, loc>>
               /\ OpenReturn(t, m.err)
          ELSE /\ call' = [call EXCEPT ![t].arg.applied = Append(@, file.db_version)]
               /\ loc' = [loc EXCEPT ![t].file =
                                       [schema |-> m.schema,
                                        db_version |-> file.db_version + 1]]
               /\ IF file.db_version + 1 < NumMigrations + 1
                  THEN /\ last' = NoRet
                       /\ UNCHANGED pc
                  ELSE OpenReturn(t, ErrNone)

\* Store.Close()
StoreClose(t) ==
    /\ pc[t] = "open"
    /\ pc' = [pc EXCEPT ![t] = "idle"]
    /\ call' = [call EXCEPT ![t] = NoCall]
    /\ last' = NoRet
    /\ UNCHANGED <<aead, mac, mu, closed, storeVars, loc, firstSecret>>

\* the caller names any of the files; its tables are empty
InitOpen ==
    /\ aead = NoKey /\ mac = NoKey /\ mu = 0 /\ closed = FALSE
    /\ keySalt = 0 /\ seeds = <<>> /\ signingKeys = {}
    /\ pc = [t \in Threads |-> "idle"]
    /\ call = [t \in Threads |-> NoCall]
    /\ \E f \in Files : loc = [t \in Threads |-> [NoLoc EXCEPT !.file = f]]
    /\ firstSecret = 0
    /\ last = NoRet

\* one caller opens the file, uses the store and closes it, again and again
NextOpen ==
    \/ OpenDatabase(1)
    \/ upgradeDatabase(1)
    \/ pc[1] = "open" /\ StoreAddSeed
    \/ StoreClose(1)

SpecOpen == InitOpen /\ [][NextOpen]_vars

\* ------------------------------------------------ the buffers of a call
\* AddSeed, NextKey and Sign with the memory they leave behind.  One caller
\* (thread 1) runs each call to its end in one step; the result carries every
\* buffer the call was given or made, with its content when the call returns:
\* <<"zeros">> once clear() has run on it, otherwise what was last written.
\* `mem` is the content at the return statement, `cleared` the buffers whose
\* clear() was deferred by then.
Deferred(mem, cleared) ==
    [b \in DOMAIN mem |-> IF b \in cleared THEN <<"zeros">> ELSE mem[b]]

\* Vault.derivePrivateKey: nothing is allocated before Store.Seed returns; the
\* blob and the array `seed` are cleared by the deferred calls on every later
\* exit, the panic of a nil v.aead included; the key returned is the caller's
\* to clear
derivePrivateKeyBuffers(id, index) ==
    IF isLocked # ErrNone THEN [err |-> isLocked, sk |-> 0, mem |-> <<>>]
    ELSE IF checkSeedExists(id) # ErrNone
    THEN [err |-> ErrNotFound, sk |-> 0, mem |-> <<>>]
    ELSE LET encryptedSeed == Seed(id)
         IN IF ~OpenOK(aead, encryptedSeed)
            THEN [err |-> ErrDecrypt, sk |-> 0,
                  mem |-> Deferred([encryptedSeed |-> <<"blob", encryptedSeed>>,
                                    seed |-> <<"zeros">>],
                                   {"encryptedSeed", "seed"})]
            ELSE [err |-> ErrNone,
                  sk |-> KeyFromSeed(OpenPlain(aead, encryptedSeed), index),
                  mem |-> Deferred([encryptedSeed |-> <<"blob", encryptedSeed>>,
                                    seed |-> <<"seed", OpenPlain(aead, encryptedSeed)>>],
                                   {"encryptedSeed", "seed"})]

\* Vault.AddSeed(seed): `seed` is the caller's array, read by v.mac.Write and
\* v.aead.Seal and never written; the one deferred clear is of `encrypted`
AddSeedBuffers(t) ==
    /\ pc[t] = "idle" /\ mu = 0 /\ ~closed
    /\ UNCHANGED <<aead, mac, mu, closed, keySalt, signingKeys, firstSecret>>
    /\ \E seed \in PlainSeeds, nonce \in Nonces :
       LET c == [NoCall EXCEPT !.op = "AddSeed", !.arg = seed]
           m == MacSum(mac, seed)
           encrypted == Seal(aead, nonce, seed)
           mem == Deferred([seed |-> <<"seed", seed>>,
                            encrypted |-> <<"blob", encrypted>>], {"encrypted"})
       IN IF isLocked # ErrNone
          THEN /\ Return(t, c, isLocked, [mem |-> [seed |-> <<"seed", seed>>]], <<>>)
               /\ UNCHANGED seeds
          ELSE /\ seeds' = InsertSeed(m, encrypted)
               /\ IF InsertSeedFails(m, encrypted)
                  THEN Return(t, c, ErrInsert, [mem |-> mem], <<"AddSeed">>)
                  ELSE Return(t, c, ErrNone, [mem |-> mem], <<"AddSeed">>)

\* Vault.NextKey(id): clear(sk) is deferred once derivePrivateKey has returned
\* a key, before Store.AddKeyIndex
NextKeyBuffers(t) ==
    /\ pc[t] = "idle" /\ mu = 0 /\ ~closed
    /\ UNCHANGED <<aead, mac, mu, closed, keySalt, seeds, firstSecret>>
    /\ \E id \in SeedIDs :
       LET c == [NoCall EXCEPT !.op = "NextKey", !.arg = id]
           index == NextIndex(id)
           d == derivePrivateKeyBuffers(id, index)
       IN /\ checkSeedExists(id) = ErrNone => index <= MaxIndex
          /\ IF checkSeedExists(id) # ErrNone
             THEN /\ Return(t, c, ErrNotFound, [mem |-> <<>>], <<"NextIndex">>)
                  /\ UNCHANGED signingKeys
             ELSE IF d.err # ErrNone
             THEN /\ Return(t, c, d.err, [mem |-> d.mem], <<"NextIndex", "Seed">>)
                  /\ UNCHANGED signingKeys
             ELSE /\ signingKeys' = AddKeyIndex(id, PublicKey(d.sk), index)
                  /\ Return(t, c, ErrNone,
                            [mem |-> d.mem @@ Deferred([sk |-> <<"sk", d.sk>>], {"sk"})],
                            <<"NextIndex", "Seed", "AddKeyIndex">>)

\* Vault.Sign(pk, hash): clear(sk) is deferred before sk.SignHash
SignBuffers(t) ==
    /\ pc[t] = "idle" /\ ~closed
    /\ UNCHANGED <<aead, mac, mu, closed, storeVars, firstSecret>>
    /\ \E pk \in AllPKs, hash \in Hashes :
       LET c == [NoCall EXCEPT !.op = "Sign", !.arg = pk, !.hash = hash]
       IN IF SigningKeyIndex(pk) = {}
          THEN Return(t, c, ErrNotFound, [mem |-> <<>>], <<"SigningKeyIndex">>)
          ELSE \E r \in SigningKeyIndex(pk) :
               LET d == derivePrivateKeyBuffers(r.seed_id, r.seed_index)
               IN IF d.err # ErrNone
                  THEN Return(t, c, d.err, [mem |-> d.mem], <<"SigningKeyIndex">>)
                  ELSE Return(t, c, ErrNone,
                              [mem |-> d.mem @@ Deferred([sk |-> <<"sk", d.sk>>], {"sk"})],
                              <<"SigningKeyIndex", "Seed">>)

NextBuffers ==
    \/ BeginUnlock(1) \/ DoUnlock(1)
    \/ BeginLock(1) \/ DoLock(1)
    \/ AddSeedBuffers(1) \/ NextKeyBuffers(1) \/ SignBuffers(1)

SpecBuffers == Init /\ [][NextBuffers]_vars

\* ------------------------------------- Store.transaction, an attempt at a time
\* Store.AddSeed as one caller runs it through Store.transaction, on a store
\* opened with WithMaxRetryAttempts(n) or with OpenDatabase's default.  Another
\* connection holds the database's lock for the first `busy` attempts, each of
\* which ends with "database is locked" after the busy timeout.
DefaultRetryAttempts == 10

\* the caller is thread 1; the arguments (any MAC with any blob), the store's
\* maxRetryAttempts and the time the lock is held go with the call
BeginTransaction(t) ==
    /\ pc[t] = "idle"
    /\ \E n \in {1, 2, 3, DefaultRetryAttempts} :
       \E busy \in 0..n, key \in StoreKeys, nonce \in Nonces, seed \in PlainSeeds,
          other \in PlainSeeds :
           /\ call' = [call EXCEPT ![t] =
                         [NoCall EXCEPT !.op = "transaction",
                                        !.arg = [maxRetryAttempts |-> n, busy |-> busy,
                                                 mac |-> MacSum(key, other),
                                                 encryptedSeed |-> Seal(key, nonce, seed)]]]
           /\ loc' = [loc EXCEPT ![t].attempt = 1]
    /\ pc' = [pc EXCEPT ![t] = "transaction"]
    /\ last' = NoRet
    /\ UNCHANGED <<aead, mac, mu, closed, storeVars, firstSecret>>

\* the loop of Store.transaction: its test, and one doTransaction with what
\* follows it.  The result carries `attempt` as the returned error prints it;
\* doTransaction was called attempt - 1 times when the loop ran out, and
\* `attempt` times when it was left from within.
transaction(t) ==
    LET a == call[t].arg
        attempt == loc[t].attempt
        failed(err) == Return(t, call[t], err, [attempt |-> attempt], <<"AddSeed">>)
    IN /\ pc[t] = "transaction"
       /\ IF ~(attempt < a.maxRetryAttempts)
          THEN /\ failed(IF loc[t].err = "nil" THEN "transaction failed: %!w(<nil>)"
                         ELSE "transaction failed: database is locked")
               /\ UNCHANGED <<aead, mac, mu, closed, storeVars, firstSecret>>
          ELSE IF attempt <= a.busy
          THEN /\ loc' = [loc EXCEPT ![t].attempt = attempt + 1,
                                     ![t].err = "database is locked"]
               /\ last' = NoRet
               /\ UNCHANGED <<aead, mac, mu, closed, storeVars, pc, call, firstSecret>>
          ELSE IF InsertSeedFails(a.mac, a.encryptedSeed)
          THEN /\ failed("transaction failed: failed to insert seed")
               /\ UNCHANGED <<aead, mac, mu, closed, storeVars, firstSecret>>
          ELSE /\ Len(InsertSeed(a.mac, a.encryptedSeed)) <= NumPlainSeeds
               /\ seeds' = InsertSeed(a.mac, a.encryptedSeed)
               /\ Return(t, call[t], ErrNone, [attempt |-> attempt], <<"AddSeed">>)
               /\ UNCHANGED <<aead, mac, mu, closed, keySalt, signingKeys, firstSecret>>

NextTxn == BeginTransaction(1) \/ transaction(1)

SpecTxn == Init /\ [][NextTxn]_vars

\* ------------------------------------------------------------------ the API
\* The HTTP handlers of package api over the vault.  Requests are served one
\* at a time here, so a handler's calls into the vault run to completion and
\* the handler is one step, ending with its response: the error it reports
\* (or nil) and the status and body it writes.
APIThreads == Threads \ (2..NumThreads)

\* Vault.NextKey(id) run to completion on table signing_keys as ks: its
\* error, the key it returns, the table afterwards and the store calls made
NextKeyOn(ks, id) ==
    LET idx == {r.seed_index : r \in KeysOf(ks, id)}
        index == IF idx = {} THEN 0 ELSE Max(idx) + 1
        d == derivePrivateKey(id, index)
        pk == PublicKey(d.sk)
    IN IF closed THEN [err |-> ErrClosed, pk |-> 0, ks |-> ks, calls |-> <<>>]
       ELSE IF checkSeedExists(id) # ErrNone
       THEN [err |-> ErrNotFound, pk |-> 0, ks |-> ks, calls |-> <<"NextIndex">>]
       ELSE IF d.err # ErrNone
       THEN [err |-> d.err, pk |-> 0, ks |-> ks, calls |-> <<"NextIndex">> \o d.calls]
       ELSE [err |-> ErrNone, pk |-> pk,
             ks |-> IF \E r \in ks : r.public_key = pk THEN ks
                    ELSE ks \cup {[public_key |-> pk, seed_id |-> id,
                                   seed_index |-> index]},
             calls |-> <<"NextIndex">> \o d.calls \o <<"AddKeyIndex">>]

\* the loop of handlePOSTSeedsKeys: count calls of Vault.NextKey(id), ended by
\* the first that fails; the rows of the calls before it stay
RECURSIVE GenerateKeys(_, _, _)
GenerateKeys(ks, id, count) ==
    IF count = 0 THEN [err |-> ErrNone, keys |-> <<>>, ks |-> ks, calls |-> <<>>]
    ELSE LET r == NextKeyOn(ks, id)
             rest == GenerateKeys(r.ks, id, count - 1)
         IN IF r.err # ErrNone
            THEN [err |-> r.err, keys |-> <<>>, ks |-> r.ks, calls |-> r.calls]
            ELSE [err |-> rest.err,
                  keys |-> IF rest.err # ErrNone THEN <<>> ELSE <<r.pk>> \o rest.keys,
                  ks |-> rest.ks, calls |-> r.calls \o rest.calls]

\* SeedDeriveRequest.Count
Counts == 0..(MaxIndex + 1)

\* POST /seeds/:id/keys; the request is one that keeps the seed's indices
\* within MaxIndex
handlePOSTSeedsKeys(t) ==
    /\ pc[t] = "idle" /\ mu = 0
    /\ UNCHANGED <<aead, mac, mu, closed, keySalt, seeds, firstSecret>>
    /\ \E id \in SeedIDs, count \in Counts :
        /\ checkSeedExists(id) = ErrNone => NextIndex(id) + count <= MaxIndex + 1
        /\ LET c == [NoCall EXCEPT !.op = "POST /seeds/:id/keys", !.arg = id,
                                   !.limit = count]
               g == GenerateKeys(signingKeys, id, count)
           IN /\ signingKeys' = g.ks
              /\ IF g.err # ErrNone
                 THEN Return(t, c, g.err,
                             [status |-> "InternalServerError", keys |-> <<>>], g.calls)
                 ELSE Return(t, c, ErrNone, [status |-> "OK", keys |-> g.keys], g.calls)

\* Sign with a Locked vault answering as if the key were not stored
SignLockedAsNotFound(pk, hash) ==
    LET r == CHOOSE r \in SigningKeyIndex(pk) : TRUE
        d == derivePrivateKey(r.seed_id, r.seed_index)
    IN IF closed THEN [err |-> ErrClosed, sig |-> 0]
       ELSE IF SigningKeyIndex(pk) = {} THEN [err |-> ErrNotFound, sig |-> 0]
       ELSE IF d.err = ErrLocked THEN [err |-> ErrNotFound, sig |-> 0]
       ELSE IF d.err # ErrNone THEN [err |-> d.err, sig |-> 0]
       ELSE [err |-> ErrNone, sig |-> SignHash(d.sk, hash)]

\* Vault.Sign(pk, hash) run to completion: tg.Add, Store.SigningKeyIndex,
\* derivePrivateKey, sk.SignHash
Sign(pk, hash) ==
    LET r == CHOOSE r \in SigningKeyIndex(pk) : TRUE
        d == derivePrivateKey(r.seed_id, r.seed_index)
    IN IF closed THEN [err |-> ErrClosed, sig |-> 0]
       ELSE IF SigningKeyIndex(pk) = {} THEN [err |-> ErrNotFound, sig |-> 0]
       ELSE IF d.err # ErrNone THEN [err |-> d.err, sig |-> 0]
       ELSE [err |-> ErrNone, sig |-> SignHash(d.sk, hash)]

\* ---- the consensus state of a signing request
MaxHeight == 2
Heights == 0..MaxHeight

\* consensus.Network: HardforkV2.AllowHeight below HardforkV2.RequireHeight
Networks ==
    {n \in [allowHeight : Heights, requireHeight : Heights] :
        n.allowHeight < n.requireHeight}

\* the fields state and network of a request are optional: nil
NoNetwork == [allowHeight |-> -1, requireHeight |-> -1]
NoState == [height |-> -1]

\* consensus.State.Index.Height, as the request gives it
States == [height : Heights]

\* a consensus.State with its Network set; the zero value
ChainStates == [height : Heights, network : Networks]
NoCS == [height |-> -1, network |-> NoNetwork]

ErrTip == "failed to get consensus state"
ErrNeedState == "state must be provided if network is provided"
ErrNeedNetwork == "network must be provided if state is provided"

\* what a.chain.TipState(ctx) may answer
TipStates ==
    {[err |-> ErrNone, cs |-> cs] : cs \in ChainStates} \cup {[err |-> ErrTip, cs |-> NoCS]}

\* a request that names a state or a network does not ask the chain
NoTip == [err |-> ErrNone, cs |-> NoCS]

\* the state and network of a request, with the chain's answer where the
\* handler asks for it
Contexts ==
    {x \in [state : States \cup {NoState}, network : Networks \cup {NoNetwork},
            tip : {NoTip}] : x.state # NoState \/ x.network # NoNetwork}
    \cup [state : {NoState}, network : {NoNetwork}, tip : TipStates]

\* api.getConsensusState(ctx, state, network)
getConsensusState(state, network, tip) ==
    IF state # NoState /\ network # NoNetwork
    THEN [err |-> ErrNone, cs |-> [height |-> state.height, network |-> network]]
    ELSE IF state = NoState /\ network = NoNetwork THEN tip
    ELSE IF state = NoState THEN [err |-> ErrNeedState, cs |-> NoCS]
    ELSE [err |-> ErrNeedNetwork, cs |-> NoCS]

\* the replay prefix the signature hashes of a state carry: it changes at the
\* v2 hardfork
replayPrefix(cs) == IF cs.height >= cs.network.allowHeight THEN "v2" ELSE "v1"

\* ---- the keys requests name
Ed25519 == "ed25519"
Entropy == "entropy"

\* the first key of every seed a caller may add, held once it is derived
RequestPKs == {PublicKey(KeyFromSeed(s, 0)) : s \in PlainSeeds}

\* two of these keys, in either order
KeyPairs == {k \in RequestPKs \X RequestPKs : k[1] # k[2]}

\* types.UnlockKey with an ed25519 key
UnlockKeys == [algorithm : {Ed25519}, key : RequestPKs]

\* ---- POST /sign
\* the ids of the outputs a transaction may spend
ParentIDs == 1..2

\* types.SiacoinInput / SiafundInput: the parent id and the unlock conditions
V1Inputs ==
    {[parentID |-> 1,
      unlockConditions |-> [publicKeys |-> <<uk>>, signaturesRequired |-> 1]] :
        uk \in UnlockKeys}

\* a signature made outside the vault, carried by the request
PresetSignature ==
    <<SignHash(KeyFromSeed(0, 0),
               [kind |-> "preset", prefix |-> "v1", parentID |-> 1,
                publicKeyIndex |-> 0, txn |-> <<>>])>>

\* types.TransactionSignature; Signature is <<>> for nil.  An entry names the
\* input's key, a key index or a parent the transaction does not have, and
\* an entry for the input's key may be signed already or cover part only
TransactionSignatures ==
    {e \in [parentID : ParentIDs, publicKeyIndex : 0..1, wholeTransaction : BOOLEAN,
            signature : {<<>>, PresetSignature}] :
        \/ e.parentID = 1 /\ e.publicKeyIndex = 0
                /\ (e.wholeTransaction \/ e.signature = <<>>)
        \/ e.parentID + e.publicKeyIndex = 2
                /\ e.wholeTransaction /\ e.signature = <<>>}

\* types.Transaction, with no or one signature entry, or with two, the second
\* an entry for the input's key over the whole transaction, signed or not
V1Transactions ==
    {[siacoinInputs |-> <<in>>, siafundInputs |-> <<>>, signatures |-> sigs] :
        in \in V1Inputs,
        sigs \in {<<>>} \cup {<<e>> : e \in TransactionSignatures}
                 \cup {<<e, f>> : e \in TransactionSignatures,
                                  f \in {g \in TransactionSignatures :
                                            /\ g.parentID = 1 /\ g.publicKeyIndex = 0
                                            /\ g.wholeTransaction}}}

\* cs.WholeSigHash(txn, parentID, pubkeyIndex, timelock, nil) and
\* cs.PartialSigHash(txn, cf): digests of the state's replay prefix, of the
\* transaction without its signatures and of the entry signed for
WholeSigHash(cs, txn, parentID, publicKeyIndex) ==
    [kind |-> "whole", prefix |-> replayPrefix(cs), parentID |-> parentID,
     publicKeyIndex |-> publicKeyIndex,
     txn |-> <<txn.siacoinInputs, txn.siafundInputs>>]

PartialSigHash(cs, txn) ==
    [kind |-> "partial", prefix |-> replayPrefix(cs), parentID |-> 0,
     publicKeyIndex |-> 0, txn |-> <<txn.siacoinInputs, txn.siafundInputs>>]

\* the least element of a non-empty set of naturals
Min(S) == CHOOSE x \in S : \A y \in S : x <= y

\* handlePOSTSign's publicKeyForSigning(id, pubKeyIndex): the key at that
\* index of the unlock conditions of the first input spending id, siacoin
\* inputs first
publicKeyForSigning(txn, id, pubKeyIndex) ==
    LET inputs == txn.siacoinInputs \o txn.siafundInputs
        found == {i \in 1..Len(inputs) : inputs[i].parentID = id}
        uc == inputs[Min(found)].unlockConditions
        uk == uc.publicKeys[pubKeyIndex + 1]
    IN IF found = {} THEN [ok |-> FALSE, pk |-> 0]
       ELSE IF pubKeyIndex >= Len(uc.publicKeys) THEN [ok |-> FALSE, pk |-> 0]
       ELSE IF uk.algorithm # Ed25519 THEN [ok |-> FALSE, pk |-> 0]
       ELSE [ok |-> TRUE, pk |-> uk.key]

\* the elements of a sequence
Range(q) == {q[i] : i \in 1..Len(q)}

\* the loop signing every entry, signed already or not
RECURSIVE signEntriesResign(_, _, _)
signEntriesResign(cs, acc, i) ==
    IF i > Len(acc.txn.signatures) THEN acc
    ELSE LET sig == acc.txn.signatures[i]
             key == publicKeyForSigning(acc.txn, sig.parentID, sig.publicKeyIndex)
             sigHash == IF sig.wholeTransaction
                        THEN WholeSigHash(cs, acc.txn, sig.parentID, sig.publicKeyIndex)
                        ELSE PartialSigHash(cs, acc.txn)
             s == Sign(key.pk, sigHash)
             called == [acc EXCEPT !.calls = Append(@, "Sign")]
         IN IF ~key.ok THEN signEntriesResign(cs, acc, i + 1)
            ELSE IF s.err = ErrNotFound THEN signEntriesResign(cs, called, i + 1)
            ELSE IF s.err # ErrNone THEN [called EXCEPT !.err = s.err]
            ELSE signEntriesResign(cs, [called EXCEPT
                                            !.txn.signatures[i].signature = <<s.sig>>,
                                            !.signed = @ + 1],
                                   i + 1)

\* handlePOSTSign's loop over txn.Signatures from entry i on; acc holds the
\* transaction as signed so far, the count `signed`, the vault calls made and
\* the error that ended the loop
RECURSIVE signEntries(_, _, _)
signEntries(cs, acc, i) ==
    IF i > Len(acc.txn.signatures) THEN acc
    ELSE LET sig == acc.txn.signatures[i]
             key == publicKeyForSigning(acc.txn, sig.parentID, sig.publicKeyIndex)
             sigHash == IF sig.wholeTransaction
                        THEN WholeSigHash(cs, acc.txn, sig.parentID, sig.publicKeyIndex)
                        ELSE PartialSigHash(cs, acc.txn)
             s == Sign(key.pk, sigHash)
             called == [acc EXCEPT !.calls = Append(@, "Sign")]
         IN IF sig.signature # <<>>
            THEN signEntries(cs, [acc EXCEPT !.signed = @ + 1], i + 1)
            ELSE IF ~key.ok THEN signEntries(cs, acc, i + 1)
            ELSE IF s.err = ErrNotFound THEN signEntries(cs, called, i + 1)
            ELSE IF s.err # ErrNone THEN [called EXCEPT !.err = s.err]
            ELSE signEntries(cs, [called EXCEPT !.txn.signatures[i].signature = <<s.sig>>,
                                                !.signed = @ + 1],
                             i + 1)

ErrNoSignatures == "no signatures were added"

\* the body of an error response carries no transaction
NoTransaction == [siacoinInputs |-> <<>>, siafundInputs |-> <<>>, signatures |-> <<>>]

\* jc.Error(err, status) of a signing handler, as the handler's return
SignError(t, c, err, status, calls) ==
    Return(t, c, err,
           [status |-> status, transaction |-> NoTransaction, fullySigned |-> FALSE],
           calls)

\* POST /sign reporting every answered transaction as fully signed
handlePOSTSignAlwaysFull(t) ==
    /\ pc[t] = "idle"
    /\ UNCHANGED <<aead, mac, mu, closed, storeVars, firstSecret>>
    /\ \E ctx \in Contexts, txn \in V1Transactions :
        LET c == [NoCall EXCEPT !.op = "POST /sign", !.arg = [ctx |-> ctx, txn |-> txn]]
            got == getConsensusState(ctx.state, ctx.network, ctx.tip)
            res == signEntries(got.cs, [txn |-> txn, signed |-> 0, calls |-> <<>>,
                                        err |-> ErrNone], 1)
        IN IF got.err # ErrNone THEN SignError(t, c, got.err, "BadRequest", <<>>)
           ELSE IF res.err # ErrNone
           THEN SignError(t, c, res.err, "InternalServerError", res.calls)
           ELSE IF res.signed = 0
           THEN SignError(t, c, ErrNoSignatures, "BadRequest", res.calls)
           ELSE Return(t, c, ErrNone,
                       [status |-> "OK", transaction |-> res.txn,
                        fullySigned |-> TRUE],
                       res.calls)

\* POST /sign
handlePOSTSign(t) ==
    /\ pc[t] = "idle"
    /\ UNCHANGED <<aead, mac, mu, closed, storeVars, firstSecret>>
    /\ \E ctx \in Contexts, txn \in V1Transactions :
        LET c == [NoCall EXCEPT !.op = "POST /sign", !.arg = [ctx |-> ctx, txn |-> txn]]
            got == getConsensusState(ctx.state, ctx.network, ctx.tip)
            res == signEntries(got.cs, [txn |-> txn, signed |-> 0, calls |-> <<>>,
                                        err |-> ErrNone], 1)
        IN IF got.err # ErrNone THEN SignError(t, c, got.err, "BadRequest", <<>>)
           ELSE IF res.err # ErrNone
           THEN SignError(t, c, res.err, "InternalServerError", res.calls)
           ELSE IF res.signed = 0
           THEN SignError(t, c, ErrNoSignatures, "BadRequest", res.calls)
           ELSE Return(t, c, ErrNone,
                       [status |-> "OK", transaction |-> res.txn,
                        fullySigned |-> res.signed = Len(res.txn.signatures)],
                       res.calls)

\* ---- POST /v2/sign
\* types.SpendPolicy: one record for every policy type, the fields of the
\* other types left empty
NoPolicyFields ==
    [type |-> "opaque", pk |-> [pkSeed |-> 0, pkIndex |-> 0], n |-> 0, of |-> <<>>,
     publicKeys |-> <<>>, signaturesRequired |-> 0]

\* types.PolicyTypePublicKey
PolicyPublicKey(pk) == [NoPolicyFields EXCEPT !.type = "pk", !.pk = pk]

\* types.PolicyTypeThreshold
PolicyThreshold(n, of) == [NoPolicyFields EXCEPT !.type = "thresh", !.n = n, !.of = of]

\* types.PolicyTypeUnlockConditions
PolicyUnlockConditions(publicKeys, signaturesRequired) ==
    [NoPolicyFields EXCEPT !.type = "uc", !.publicKeys = publicKeys,
                           !.signaturesRequired = signaturesRequired]

\* ed25519.PublicKeySize
PublicKeySize == 32

\* the policies of the requests: a key, a threshold over two keys, unlock
\* conditions over two keys, with a key of another algorithm, or with a second
\* key of another algorithm or one byte short, and a policy of a type that
\* takes no signature.  `size` is len(Key).
MaxRequired == 3
Policies ==
    {PolicyPublicKey(p) : p \in RequestPKs}
    \cup {PolicyThreshold(n, <<PolicyPublicKey(k[1]), PolicyPublicKey(k[2])>>) :
            n \in 1..MaxRequired, k \in KeyPairs}
    \cup {PolicyUnlockConditions(
                <<[algorithm |-> Ed25519, key |-> k[1], size |-> PublicKeySize],
                  [algorithm |-> Ed25519, key |-> k[2], size |-> PublicKeySize]>>, n) :
            n \in 1..MaxRequired, k \in KeyPairs}
    \cup {PolicyUnlockConditions(
                <<[algorithm |-> Entropy, key |-> p, size |-> PublicKeySize]>>, 1) :
            p \in RequestPKs}
    \cup {PolicyUnlockConditions(
                <<[algorithm |-> Ed25519, key |-> k[1], size |-> PublicKeySize],
                  [algorithm |-> a, key |-> k[2],
                   size |-> IF a = Ed25519 THEN PublicKeySize - 1 ELSE PublicKeySize]>>,
                1) :
            a \in {Ed25519, Entropy}, k \in KeyPairs}
    \cup {NoPolicyFields}

\* types.V2SiacoinInput / V2SiafundInput: the SatisfiedPolicy, unsigned
V2Input(policy) == [policy |-> policy, signatures |-> <<>>]

\* two signatures made outside the vault, carried by a v2 request
PresetSignatures ==
    PresetSignature \o
    <<SignHash(KeyFromSeed(0, 1),
               [kind |-> "preset", prefix |-> "v2", parentID |-> 0,
                publicKeyIndex |-> 0, txn |-> <<>>])>>

\* an input whose SatisfiedPolicy comes with signatures
V2InputSigned(policy, signatures) == [policy |-> policy, signatures |-> signatures]

\* requests with signatures in them: a siacoin input with two and a siafund
\* input with one, each under a key; and a siacoin input with two under a
\* threshold of two keys, beside a siafund input that takes none
SignedV2Transactions ==
    {[siacoinInputs |-> <<V2InputSigned(PolicyPublicKey(k[1]), PresetSignatures)>>,
      siafundInputs |-> <<V2InputSigned(PolicyPublicKey(k[2]), PresetSignature)>>] :
        k \in KeyPairs}
    \cup {[siacoinInputs |->
                <<V2InputSigned(PolicyThreshold(2, <<PolicyPublicKey(k[1]),
                                                     PolicyPublicKey(k[2])>>),
                                PresetSignatures)>>,
            siafundInputs |-> <<V2Input(NoPolicyFields)>>] : k \in KeyPairs}

\* types.V2Transaction: one siacoin input, one siafund input, or one of each,
\* the siacoin input's policy of two being a key or one that fails
V2Transactions ==
    SignedV2Transactions \cup
    {[siacoinInputs |-> <<V2Input(p)>>, siafundInputs |-> <<>>] : p \in Policies}
    \cup {[siacoinInputs |-> <<>>, siafundInputs |-> <<V2Input(PolicyPublicKey(p))>>] :
            p \in RequestPKs}
    \cup {[siacoinInputs |-> <<V2Input(PolicyPublicKey(k[1]))>>,
           siafundInputs |-> <<V2Input(PolicyPublicKey(k[2]))>>] : k \in KeyPairs}
    \cup {[siacoinInputs |->
                <<V2Input(PolicyUnlockConditions(
                              <<[algorithm |-> Entropy, key |-> p,
                                 size |-> PublicKeySize]>>, 1))>>,
           siafundInputs |-> <<V2Input(PolicyPublicKey(p))>>] : p \in RequestPKs}

\* the policies of a list of inputs
PoliciesOf(inputs) == [i \in 1..Len(inputs) |-> inputs[i].policy]

\* cs.InputSigHash(txn): one digest for all inputs, of the state's replay
\* prefix and the transaction without its signatures
InputSigHash(cs, txn) ==
    [kind |-> "input", prefix |-> replayPrefix(cs), parentID |-> 0, publicKeyIndex |-> 0,
     txn |-> <<PoliciesOf(txn.siacoinInputs), PoliciesOf(txn.siafundInputs)>>]

ErrThreshold == "threshold not met"
ErrRequired == "required signatures not met"
ErrAlgorithm == "unsupported public key algorithm"

\* handlePOSTSignV2's signPolicy(policy, signatures) with the loops of its
\* Threshold and UnlockConditions cases; acc holds the error returned, the
\* signatures list as appended to so far and the vault calls made
RECURSIVE signPolicy(_, _, _), signThreshold(_, _, _, _, _)
RECURSIVE signThresholdSigned(_, _, _, _, _)
RECURSIVE signUnlockConditions(_, _, _, _, _)
RECURSIVE signUnlockConditionsAll(_, _, _, _, _)
signPolicy(policy, sigHash, acc) ==
    IF policy.type = "thresh" THEN signThreshold(policy, sigHash, 1, 0, acc)
    ELSE IF policy.type = "pk"
    THEN LET s == Sign(policy.pk, sigHash)
             called == [acc EXCEPT !.calls = Append(@, "Sign")]
         IN IF s.err = ErrNotFound THEN called
            ELSE IF s.err # ErrNone THEN [called EXCEPT !.err = s.err]
            ELSE [called EXCEPT !.signatures = Append(@, s.sig)]
    ELSE IF policy.type = "uc" THEN signUnlockConditions(policy, sigHash, 1, 0, acc)
    ELSE acc

\* mutant: a Threshold case that counts the sub-policies that appended a
\* signature
signThresholdSigned(policy, sigHash, i, signed, acc) ==
    IF i > Len(policy.of) \/ signed = policy.n
    THEN IF signed < policy.n THEN [acc EXCEPT !.err = ErrThreshold] ELSE acc
    ELSE LET r == signPolicy(policy.of[i], sigHash, acc)
         IN IF r.err # ErrNone THEN r
            ELSE signThresholdSigned(policy, sigHash, i + 1,
                                     IF r.signatures # acc.signatures THEN signed + 1
                                     ELSE signed, r)

\* the Threshold case from sub-policy i on, `signed` sub-policies done
signThreshold(policy, sigHash, i, signed, acc) ==
    IF i > Len(policy.of) \/ signed = policy.n
    THEN IF signed < policy.n THEN [acc EXCEPT !.err = ErrThreshold] ELSE acc
    ELSE LET r == signPolicy(policy.of[i], sigHash, acc)
         IN IF r.err # ErrNone THEN r
            ELSE signThreshold(policy, sigHash, i + 1, signed + 1, r)

\* mutant: an UnlockConditions case that signs with every key it holds
signUnlockConditionsAll(policy, sigHash, i, signed, acc) ==
    IF i > Len(policy.publicKeys)
    THEN IF signed < policy.signaturesRequired THEN [acc EXCEPT !.err = ErrRequired]
         ELSE acc
    ELSE LET uk == policy.publicKeys[i]
             s == Sign(uk.key, sigHash)
             called == [acc EXCEPT !.calls = Append(@, "Sign")]
         IN IF uk.algorithm # Ed25519 \/ uk.size # PublicKeySize
            THEN [acc EXCEPT !.err = ErrAlgorithm]
            ELSE IF s.err = ErrNotFound
            THEN signUnlockConditionsAll(policy, sigHash, i + 1, signed, called)
            ELSE IF s.err # ErrNone THEN [called EXCEPT !.err = s.err]
            ELSE signUnlockConditionsAll(policy, sigHash, i + 1, signed + 1,
                                         [called EXCEPT !.signatures = Append(@, s.sig)])

\* the UnlockConditions case from key i on, `signed` signatures appended
signUnlockConditions(policy, sigHash, i, signed, acc) ==
    IF i > Len(policy.publicKeys) \/ signed = policy.signaturesRequired
    THEN IF signed < policy.signaturesRequired THEN [acc EXCEPT !.err = ErrRequired]
         ELSE acc
    ELSE LET uk == policy.publicKeys[i]
             s == Sign(uk.key, sigHash)
             called == [acc EXCEPT !.calls = Append(@, "Sign")]
         IN IF uk.algorithm # Ed25519 \/ uk.size # PublicKeySize
            THEN [acc EXCEPT !.err = ErrAlgorithm]
            ELSE IF s.err = ErrNotFound
            THEN signUnlockConditions(policy, sigHash, i + 1, signed, called)
            ELSE IF s.err # ErrNone THEN [called EXCEPT !.err = s.err]
            ELSE signUnlockConditions(policy, sigHash, i + 1, signed + 1,
                                      [called EXCEPT !.signatures = Append(@, s.sig)])

\* mutant: every input's list of signatures is started anew
SignInputsAnew(inputs, sigHash) ==
    [i \in 1..Len(inputs) |->
        signPolicy(inputs[i].policy, sigHash,
                   [err |-> ErrNone, signatures |-> <<>>, calls |-> <<>>])]

\* signPolicy on every input of a list: per input, the error, the signatures
\* afterwards and the calls
SignInputs(inputs, sigHash) ==
    [i \in 1..Len(inputs) |->
        signPolicy(inputs[i].policy, sigHash,
                   [err |-> ErrNone, signatures |-> inputs[i].signatures,
                    calls |-> <<>>])]

\* the inputs of a list in which a policy failed returned as they came
SignedUnlessFailed(inputs, done) ==
    IF \E i \in 1..Len(inputs) : done[i].err # ErrNone THEN inputs
    ELSE [i \in 1..Len(inputs) |-> [inputs[i] EXCEPT !.signatures = done[i].signatures]]

\* the inputs with the signatures signPolicy left in them
Signed(inputs, done) ==
    [i \in 1..Len(inputs) |-> [inputs[i] EXCEPT !.signatures = done[i].signatures]]

\* the concatenation of the calls of a list of results
RECURSIVE CallsOf(_)
CallsOf(done) == IF done = <<>> THEN <<>> ELSE Head(done).calls \o CallsOf(Tail(done))

ErrNotAllowed == "v2 transactions are not supported until after the allow height"

\* POST /v2/sign refusing the allow height itself
handlePOSTSignV2AfterAllow(t) ==
    /\ pc[t] = "idle"
    /\ UNCHANGED <<aead, mac, mu, closed, storeVars, firstSecret>>
    /\ \E ctx \in Contexts, txn \in V2Transactions :
        LET c == [NoCall EXCEPT !.op = "POST /v2/sign",
                                !.arg = [ctx |-> ctx, txn |-> txn]]
            got == getConsensusState(ctx.state, ctx.network, ctx.tip)
            sigHash == InputSigHash(got.cs, txn)
            siacoin == SignInputs(txn.siacoinInputs, sigHash)
            siafund == SignInputs(txn.siafundInputs, sigHash)
            signed == \A r \in Range(siacoin) \cup Range(siafund) : r.err = ErrNone
        IN IF got.err # ErrNone THEN SignError(t, c, got.err, "BadRequest", <<>>)
           ELSE IF got.cs.height <= got.cs.network.allowHeight
           THEN SignError(t, c, ErrNotAllowed, "BadRequest", <<>>)
           ELSE Return(t, c, ErrNone,
                       [status |-> "OK",
                        transaction |->
                            [siacoinInputs |-> Signed(txn.siacoinInputs, siacoin),
                             siafundInputs |-> Signed(txn.siafundInputs, siafund)],
                        fullySigned |-> signed],
                       CallsOf(siacoin) \o CallsOf(siafund))

\* POST /v2/sign
handlePOSTSignV2(t) ==
    /\ pc[t] = "idle"
    /\ UNCHANGED <<aead, mac, mu, closed, storeVars, firstSecret>>
    /\ \E ctx \in Contexts, txn \in V2Transactions :
        LET c == [NoCall EXCEPT !.op = "POST /v2/sign",
                                !.arg = [ctx |-> ctx, txn |-> txn]]
            got == getConsensusState(ctx.state, ctx.network, ctx.tip)
            sigHash == InputSigHash(got.cs, txn)
            siacoin == SignInputs(txn.siacoinInputs, sigHash)
            siafund == SignInputs(txn.siafundInputs, sigHash)
            signed == \A r \in Range(siacoin) \cup Range(siafund) : r.err = ErrNone
        IN IF got.err # ErrNone THEN SignError(t, c, got.err, "BadRequest", <<>>)
           ELSE IF got.cs.height < got.cs.network.allowHeight
           THEN SignError(t, c, ErrNotAllowed, "BadRequest", <<>>)
           ELSE Return(t, c, ErrNone,
                       [status |-> "OK",
                        transaction |->
                            [siacoinInputs |-> Signed(txn.siacoinInputs, siacoin),
                             siafundInputs |-> Signed(txn.siafundInputs, siafund)],
                        fullySigned |-> signed],
                       CallsOf(siacoin) \o CallsOf(siafund))

\* POST /blind/sign: one Vault.Sign of the request's hash under its public key
handlePOSTBlindSign(t) ==
    /\ pc[t] = "idle"
    /\ UNCHANGED <<aead, mac, mu, closed, storeVars, firstSecret>>
    /\ \E pk \in AllPKs, hash \in Hashes :
        LET c == [NoCall EXCEPT !.op = "POST /blind/sign", !.arg = pk, !.hash = hash]
            s == Sign(pk, hash)
        IN IF s.err = ErrNotFound
           THEN Return(t, c, s.err, [status |-> "NotFound", signature |-> <<>>],
                       <<"Sign">>)
           ELSE IF s.err # ErrNone
           THEN Return(t, c, s.err,
                       [status |-> "InternalServerError", signature |-> <<>>],
                       <<"Sign">>)
           ELSE Return(t, c, ErrNone, [status |-> "OK", signature |-> <<s.sig>>],
                       <<"Sign">>)

\* a policy under d thresholds of one
RECURSIVE Nested(_, _)
Nested(policy, d) ==
    IF d = 0 THEN policy ELSE PolicyThreshold(1, <<Nested(policy, d - 1)>>)

\* the number of policies, one within the other, of the deepest request
MaxNesting == 65

\* ---- POST /v2/sign, a call of signPolicy at a time
\* the requests: one input under MaxNesting policies, and a siacoin input
\* under a threshold over a key and unlock conditions with a siafund input
\* that takes no signature; the keys are the first seed's and the second's
DeepTransactions ==
    LET p == PublicKey(KeyFromSeed(1, 0))
        q == PublicKey(KeyFromSeed(2, 0))
    IN {[siacoinInputs |-> <<V2Input(Nested(PolicyPublicKey(p), MaxNesting - 1))>>,
         siafundInputs |-> <<>>],
        [siacoinInputs |->
            <<V2Input(PolicyThreshold(2,
                 <<PolicyPublicKey(p),
                   PolicyUnlockConditions(<<[algorithm |-> Ed25519, key |-> q,
                                             size |-> PublicKeySize]>>, 1)>>))>>,
         siafundInputs |-> <<V2Input(NoPolicyFields)>>]}

\* the consensus states of these requests: a given state and network, with
\* the height below the allow height or at it
DeepContexts ==
    {c \in Contexts : /\ c.state # NoState /\ c.tip = NoTip
                      /\ c.network = [allowHeight |-> 1, requireHeight |-> 2]
                      /\ c.state.height <= 1}

\* the digest of the request thread t is serving
RunSigHash(t) ==
    LET ctx == call[t].arg.ctx
    IN InputSigHash(getConsensusState(ctx.state, ctx.network, ctx.tip).cs,
                    call[t].arg.txn)

\* handlePOSTSignV2 up to its loops over the inputs
BeginSignV2(t) ==
    /\ pc[t] = "idle"
    /\ UNCHANGED <<aead, mac, mu, closed, storeVars, firstSecret>>
    /\ \E ctx \in DeepContexts, txn \in DeepTransactions :
        LET c == [NoCall EXCEPT !.op = "POST /v2/sign",
                                !.arg = [ctx |-> ctx, txn |-> txn]]
            got == getConsensusState(ctx.state, ctx.network, ctx.tip)
        IN IF got.err # ErrNone THEN SignError(t, c, got.err, "BadRequest", <<>>)
           ELSE IF got.cs.height < got.cs.network.allowHeight
           THEN SignError(t, c, ErrNotAllowed, "BadRequest", <<>>)
           ELSE /\ pc' = [pc EXCEPT ![t] = "inputs"]
                /\ call' = [call EXCEPT ![t] = c]
                /\ loc' = [loc EXCEPT ![t].run =
                               [NoRun EXCEPT !.inputs = txn.siacoinInputs
                                                           \o txn.siafundInputs,
                                             !.k = 1]]
                /\ last' = NoRet

\* the loops' call of signPolicy for input k, and what they do with its error
NextInput(t) ==
    /\ pc[t] = "inputs" /\ loc[t].run.frames = <<>>
    /\ loc[t].run.k <= Len(loc[t].run.inputs)
    /\ UNCHANGED <<aead, mac, mu, closed, storeVars, firstSecret, pc, call, last>>
    /\ LET run == loc[t].run
       IN IF ~run.inCall
          THEN loc' = [loc EXCEPT ![t].run.inCall = TRUE,
                                  ![t].run.frames =
                                      <<[i |-> 1, signed |-> 0, wait |-> FALSE]>>]
          ELSE loc' = [loc EXCEPT ![t].run.inCall = FALSE,
                                  ![t].run.k = @ + 1,
                                  ![t].run.err = ErrNone,
                                  ![t].run.signed = @ /\ run.err = ErrNone]

\* the policy argument of the call on top of the stack: a call's policy is
\* the sub-policy its caller's loop is at; frame j is a call with `policy`
RECURSIVE PolicyOf(_, _, _)
PolicyOf(policy, frames, j) ==
    IF j = Len(frames) THEN policy
    ELSE PolicyOf(policy.of[frames[j].i], frames, j + 1)

\* one step of the signPolicy call on top of the stack.  A Threshold call
\* either calls signPolicy for its sub-policy i, or takes up that call's
\* error, or leaves its loop and returns; the other cases run to their
\* return.  A call returns by leaving the stack with its error in run.err.
StepSignPolicy(t) ==
    /\ pc[t] = "inputs" /\ loc[t].run.frames # <<>>
    /\ UNCHANGED <<aead, mac, mu, closed, storeVars, firstSecret, pc, call, last>>
    /\ LET run == loc[t].run
           top == run.frames[Len(run.frames)]
           rest == SubSeq(run.frames, 1, Len(run.frames) - 1)
           policy == PolicyOf(run.inputs[run.k].policy, run.frames, 1)
           sigs == run.inputs[run.k].signatures
           s == Sign(policy.pk, RunSigHash(t))
           uc == signUnlockConditions(policy, RunSigHash(t), 1, 0,
                                      [err |-> ErrNone, signatures |-> sigs,
                                       calls |-> run.calls])
       IN IF policy.type = "thresh" /\ top.wait
          THEN IF run.err # ErrNone
               THEN loc' = [loc EXCEPT ![t].run.frames = rest]
               ELSE loc' = [loc EXCEPT ![t].run.frames =
                               Append(rest, [top EXCEPT !.i = @ + 1, !.signed = @ + 1,
                                                        !.wait = FALSE])]
          ELSE IF policy.type = "thresh"
          THEN IF top.i > Len(policy.of) \/ top.signed = policy.n
               THEN loc' = [loc EXCEPT ![t].run.frames = rest,
                                       ![t].run.err = IF top.signed < policy.n
                                                      THEN ErrThreshold ELSE ErrNone]
               ELSE loc' = [loc EXCEPT ![t].run.frames =
                               Append(rest, [top EXCEPT !.wait = TRUE])
                               \o <<[i |-> 1, signed |-> 0, wait |-> FALSE]>>]
          ELSE IF policy.type = "pk"
          THEN loc' = [loc EXCEPT ![t].run.frames = rest,
                                  ![t].run.calls = Append(@, "Sign"),
                                  ![t].run.err = IF s.err = ErrNotFound THEN ErrNone
                                                 ELSE s.err,
                                  ![t].run.inputs[run.k].signatures =
                                      IF s.err = ErrNone THEN Append(@, s.sig) ELSE @]
          ELSE IF policy.type = "uc"
          THEN loc' = [loc EXCEPT ![t].run.frames = rest,
                                  ![t].run.calls = uc.calls,
                                  ![t].run.err = uc.err,
                                  ![t].run.inputs[run.k].signatures = uc.signatures]
          ELSE loc' = [loc EXCEPT ![t].run.frames = rest, ![t].run.err = ErrNone]

\* jc.Encode(SignV2Response{...}) after the loops
EncodeSignV2(t) ==
    /\ pc[t] = "inputs" /\ loc[t].run.frames = <<>>
    /\ loc[t].run.k > Len(loc[t].run.inputs)
    /\ UNCHANGED <<aead, mac, mu, closed, storeVars, firstSecret>>
    /\ LET run == loc[t].run
           n == Len(call[t].arg.txn.siacoinInputs)
       IN Return(t, call[t], ErrNone,
                 [status |-> "OK",
                  transaction |->
                      [siacoinInputs |-> SubSeq(run.inputs, 1, n),
                       siafundInputs |-> SubSeq(run.inputs, n + 1, Len(run.inputs))],
                  fullySigned |-> run.signed],
                 run.calls)

\* ------------------------------------------------- GET /seeds/{id}[/keys]
\* What a handler writes to its response, in order: jc.Error writes the
\* status line and the error text, jc.Encode the JSON body (and the status
\* line 200 if none was written before it).
Error(err, status) == [write |-> "Error", status |-> status, body |-> <<err>>]

Encode(v) == [write |-> "Encode", status |-> "OK", body |-> <<v>>]

\* the handler returns, having written `written`
Respond(t, c, err, written, calls) == Return(t, c, err, [written |-> written], calls)

\* Vault.SeedMeta(id) run to completion; the zero SeedMeta comes with an error
VaultSeedMeta(id) ==
    LET zero == [ID |-> 0, LastIndex |-> 0, CreatedAt |-> 0]
    IN IF closed THEN [err |-> ErrClosed, meta |-> zero, calls |-> <<>>]
       ELSE IF checkSeedExists(id) # ErrNone
       THEN [err |-> ErrNotFound, meta |-> zero, calls |-> <<"SeedMeta">>]
       ELSE [err |-> ErrNone, meta |-> seedMeta(seeds, signingKeys, id),
             calls |-> <<"SeedMeta">>]

\* Vault.SeedKeys(id, offset, limit) run to completion; nil keys with an error
VaultSeedKeys(id, offset, limit) ==
    IF closed THEN [err |-> ErrClosed, keys |-> <<>>, calls |-> <<>>]
    ELSE IF checkSeedExists(id) # ErrNone
    THEN [err |-> ErrNotFound, keys |-> <<>>, calls |-> <<"SeedKeys">>]
    ELSE [err |-> ErrNone, keys |-> SeedKeys(id, offset, limit), calls |-> <<"SeedKeys">>]

\* GET /seeds/{id}
handleGETSeedsID(t) ==
    /\ pc[t] = "idle" /\ mu = 0
    /\ UNCHANGED <<aead, mac, mu, closed, storeVars, firstSecret>>
    /\ \E id \in SeedIDs :
        LET c == [NoCall EXCEPT !.op = "GET /seeds/:id", !.arg = id]
            r == VaultSeedMeta(id)
            resp == Encode(r.meta)
        IN IF r.err = ErrNotFound
           THEN Respond(t, c, r.err, <<Error(r.err, "NotFound"), resp>>, r.calls)
           ELSE IF r.err # ErrNone
           THEN Respond(t, c, r.err, <<Error(r.err, "InternalServerError")>>, r.calls)
           ELSE Respond(t, c, ErrNone, <<resp>>, r.calls)

ErrLimit == "limit must be between 1 and 500"
ErrOffset == "offset must be non-negative"

\* GET /seeds/{id}/keys?limit=&offset=
handleGETSeedsKeys(t) ==
    /\ pc[t] = "idle" /\ mu = 0
    /\ UNCHANGED <<aead, mac, mu, closed, storeVars, firstSecret>>
    /\ \E id \in SeedIDs, limit \in 0..MaxLimit, offset \in -1..MaxOffset :
        LET c == [NoCall EXCEPT !.op = "GET /seeds/:id/keys", !.arg = id,
                                !.limit = limit, !.offset = offset]
            r == VaultSeedKeys(id, offset, limit)
            resp == Encode([i \in 1..Len(r.keys) |-> [publicKey |-> r.keys[i]]])
        IN IF limit < 1 \/ limit > 500
           THEN Respond(t, c, ErrLimit, <<Error(ErrLimit, "BadRequest")>>, <<>>)
           ELSE IF offset < 0
           THEN Respond(t, c, ErrOffset, <<Error(ErrOffset, "BadRequest")>>, <<>>)
           ELSE IF r.err = ErrNotFound
           THEN Respond(t, c, r.err, <<Error(r.err, "NotFound"), resp>>, r.calls)
           ELSE IF r.err # ErrNone
           THEN Respond(t, c, r.err, <<Error(r.err, "InternalServerError")>>, r.calls)
           ELSE Respond(t, c, ErrNone, <<resp>>, r.calls)

\* the request that was served is over: its result is no longer looked at
RequestDone ==
    /\ last.call.op # "none"
    /\ last' = NoRet
    /\ UNCHANGED <<aead, mac, mu, closed, storeVars, pc, call, loc, firstSecret>>

\* no result is waiting to be looked at
Quiet == last.call.op = "none"

\* the next request is taken up when the one before it is over
NextAPI ==
    \/ \E t \in APIThreads :
        \/ Quiet /\ BeginUnlock(t)
        \/ Quiet /\ DoUnlock(t)
        \/ Quiet /\ BeginLock(t)
        \/ Quiet /\ DoLock(t)
        \/ Quiet /\ BeginAddSeed(t)
        \/ Quiet /\ DoAddSeed(t)
        \/ Quiet /\ BeginNextKey(t)
        \/ Quiet /\ DoNextKey(t)
        \/ Quiet /\ handlePOSTSeedsKeys(t)
        \/ Quiet /\ handlePOSTSign(t)
        \/ Quiet /\ handlePOSTSignV2(t)
        \/ Quiet /\ handlePOSTBlindSign(t)
    \/ RequestDone

SpecAPI == Init /\ [][NextAPI]_vars

\* the vault's operations and the two GET handlers of a seed
NextSeeds ==
    \/ \E t \in APIThreads :
        \/ Quiet /\ BeginUnlock(t)
        \/ Quiet /\ DoUnlock(t)
        \/ Quiet /\ BeginAddSeed(t)
        \/ Quiet /\ DoAddSeed(t)
        \/ Quiet /\ BeginNextKey(t)
        \/ Quiet /\ DoNextKey(t)
        \/ Quiet /\ handleGETSeedsID(t)
        \/ Quiet /\ handleGETSeedsKeys(t)
    \/ RequestDone

SpecSeeds == Init /\ [][NextSeeds]_vars

\* the vault's operations and POST /v2/sign a call of signPolicy at a time
NextPolicy ==
    \/ \E t \in APIThreads :
        \/ Quiet /\ BeginUnlock(t)
        \/ Quiet /\ DoUnlock(t)
        \/ Quiet /\ BeginLock(t)
        \/ Quiet /\ DoLock(t)
        \/ Quiet /\ BeginAddSeed(t)
        \/ Quiet /\ DoAddSeed(t)
        \/ Quiet /\ BeginNextKey(t)
        \/ Quiet /\ DoNextKey(t)
        \/ Quiet /\ BeginSignV2(t)
        \/ NextInput(t)
        \/ StepSignPolicy(t)
        \/ EncodeSignV2(t)
    \/ RequestDone

SpecPolicy == Init /\ [][NextPolicy]_vars

\* ------------------------------------------------------ the chain Manager
\* chain.Manager over an explorer whose consensus state changes.  TipState
\* holds m.mu from its first line to its return and is one step; the poller
\* goroutine is a step to start, a step to fetch and a step to store.
NumTips == 3

\* the test's updateConsensusFunc: the explorer serves another state
UpdateConsensus ==
    /\ \E index \in (0..(NumTips - 1)) \ {loc[1].m.explorer} :
           loc' = [loc EXCEPT ![1].m.explorer = index]
    /\ last' = NoRet
    /\ UNCHANGED <<aead, mac, mu, closed, storeVars, pc, call, firstSecret>>

\* Manager.TipState(ctx): with no network cached, getNetwork and
\* getConsensusState, either of which may fail; on success the state is
\* cached and the poller started.  Otherwise the cached state is returned.
TipState ==
    LET m == loc[1].m
        c == [NoCall EXCEPT !.op = "TipState"]
        ret(err, cs) == last' = [thread |-> 1, call |-> c, err |-> err, val |-> cs,
                                 calls |-> <<>>, before |-> Snapshot]
    IN /\ UNCHANGED <<aead, mac, mu, closed, storeVars, pc, call, firstSecret>>
       /\ IF m.cs.network = "nil"
          THEN \/ /\ ret("failed to get consensus state", NoManager.cs)
                  /\ UNCHANGED loc
               \/ LET cs == [index |-> m.explorer, network |-> "network"]
                  IN /\ loc' = [loc EXCEPT ![1].m.cs = cs, ![1].m.poller = "go"]
                     /\ ret(ErrNone, cs)
          ELSE /\ ret(ErrNone, m.cs)
               /\ UNCHANGED loc

\* pollConsensusState up to its loop: m.tg.AddContext fails on a stopped
\* thread group
StartPoller ==
    /\ loc[1].m.poller = "go"
    /\ loc' = [loc EXCEPT ![1].m.poller = IF loc[1].m.closed THEN "returned"
                                          ELSE "select"]
    /\ last' = NoRet
    /\ UNCHANGED <<aead, mac, mu, closed, storeVars, pc, call, firstSecret>>

\* the select and getConsensusState: the context is done and the poller
\* returns (any request under a cancelled context fails), or the ticker fires
\* and the request fails, or it brings the explorer's state
PollFailed ==
    /\ loc[1].m.poller = "select"
    /\ \/ loc[1].m.closed /\ loc' = [loc EXCEPT ![1].m.poller = "returned"]
       \/ UNCHANGED loc
    /\ last' = NoRet
    /\ UNCHANGED <<aead, mac, mu, closed, storeVars, pc, call, firstSecret>>

Polled ==
    /\ loc[1].m.poller = "select" /\ ~loc[1].m.closed
    /\ loc' = [loc EXCEPT ![1].m.poller = "fetched",
                          ![1].m.fetched = loc[1].m.explorer]
    /\ last' = NoRet
    /\ UNCHANGED <<aead, mac, mu, closed, storeVars, pc, call, firstSecret>>

\* mutant: a poller that drops what it fetched
PollDropped ==
    /\ loc[1].m.poller = "fetched"
    /\ loc' = [loc EXCEPT ![1].m.poller = "select"]
    /\ last' = NoRet
    /\ UNCHANGED <<aead, mac, mu, closed, storeVars, pc, call, firstSecret>>

\* m.mu.Lock(); m.cs = cs; m.mu.Unlock(), with the network the poller reuses
PollStored ==
    /\ loc[1].m.poller = "fetched"
    /\ loc' = [loc EXCEPT ![1].m.cs = [index |-> loc[1].m.fetched,
                                       network |-> loc[1].m.cs.network],
                          ![1].m.poller = "select"]
    /\ last' = NoRet
    /\ UNCHANGED <<aead, mac, mu, closed, storeVars, pc, call, firstSecret>>

\* Manager.Close(): m.tg.Stop() cancels the poller's context
ManagerClose ==
    /\ ~loc[1].m.closed
    /\ loc' = [loc EXCEPT ![1].m.closed = TRUE]
    /\ last' = NoRet
    /\ UNCHANGED <<aead, mac, mu, closed, storeVars, pc, call, firstSecret>>

NextChain ==
    \/ UpdateConsensus \/ TipState \/ StartPoller \/ PollFailed \/ Polled
    \/ PollStored \/ ManagerClose

\* the goroutine is scheduled, its ticker fires again and again, and a
\* request that can succeed is not failed for ever
SpecChain ==
    /\ Init /\ [][NextChain]_vars
    /\ WF_vars(StartPoller) /\ WF_vars(Polled) /\ WF_vars(PollStored)

\* ------------------------------------------------------------ the claims
\* handler op has just returned
Returned(op) == last.call.op = op

\* the handler that just returned made its last step on a Locked vault
RanLocked == last.before.aead = NoKey \/ last.before.mac = NoKey

\* the vault is Locked: the AEAD or the MAC is absent
Locked == aead = NoKey \/ mac = NoKey

\* the step that just returned left the three tables of the store as they were
StoreUntouched ==
    /\ keySalt = last.before.keySalt
    /\ seeds = last.before.seeds
    /\ signingKeys = last.before.signingKeys

\* C1: on a Locked vault SeedMeta, SeedKeys and Seeds each return ErrLocked and
\* no seed metadata or public keys.
C1_ReadsRejectedWhenLocked ==
    (Returned("SeedMeta") \/ Returned("SeedKeys") \/ Returned("Seeds")) /\ RanLocked
        => last.err = ErrLocked

\* C2: on a Locked vault NextKey(id) and Sign(pk, h) return ErrLocked for every
\* argument, stored or not, and NextKey adds no derived-key row.
C2_NextKeySignRejectedWhenLocked ==
    (Returned("NextKey") \/ Returned("Sign")) /\ RanLocked
        => last.err = ErrLocked /\ signingKeys = last.before.signingKeys

\* C3: whenever the vault is Locked, AddSeed returns ErrLocked, makes no store
\* call and inserts no seed row, before the first Unlock and after any Lock.
C3_AddSeedRejectedWhenLocked ==
    Returned("AddSeed") /\ RanLocked
        => last.err = ErrLocked /\ last.calls = <<>> /\ StoreUntouched

\* C3 witness: AddSeed is refused on a vault that was unlocked, was given a
\* seed and was locked again.
C3_Witness ==
    /\ Returned("AddSeed")
    /\ last.err = ErrLocked
    /\ firstSecret # 0
    /\ Len(seeds) > 0

\* C4: once Lock has returned and until an Unlock succeeds (the vault is
\* Locked), no Sign returns a signature and no NextKey returns a key, Sign
\* calls in flight when Lock was called included.
C4_NoKeyUseAfterLock ==
    (Returned("Sign") \/ Returned("NextKey")) /\ RanLocked => last.err # ErrNone

\* C5: Sign's locked-check and its seed decryption are atomic with respect to
\* Lock, as under the mutex: a Sign that has passed the check finds the AEAD
\* installed until it is done, and none panics on a cleared AEAD.
C5_SignAtomicWithLock ==
    /\ \A t \in Threads : pc[t] \in {"open", "opening"} => ~Locked
    /\ last.err # Panic

SeedSecretsBefore ==
    {last.before.seeds[i].encrypted_seed.key.secret : i \in 1..Len(last.before.seeds)}

\* C7: with a seed stored, Unlock of a Locked vault with a secret other than
\* the one the seeds were encrypted under returns ErrIncorrectSecret and
\* installs neither the AEAD nor the MAC (so AddSeed stays refused, by C3).
C7_WrongSecretRejected ==
    (/\ Returned("Unlock") /\ RanLocked
     /\ last.before.seeds # <<>> /\ last.call.arg \notin SeedSecretsBefore)
        => last.err = ErrIncorrectSecret /\ aead = NoKey /\ mac = NoKey

\* C7 witness: an Unlock with the wrong secret has just been refused.
C7_Witness ==
    /\ Returned("Unlock")
    /\ last.err = ErrIncorrectSecret
    /\ seeds # <<>> /\ last.call.arg \notin SeedSecretsBefore

\* C8: from the Unlocked state Unlock returns ErrUnlocked for every secret,
\* keeps the installed AEAD and MAC, and makes no store call.
C8_UnlockWhenUnlocked ==
    Returned("Unlock") /\ ~RanLocked
        => /\ last.err = ErrUnlocked
           /\ aead = last.before.aead /\ mac = last.before.mac
           /\ last.calls = <<>>
           /\ StoreUntouched

\* C8 witness: the correct secret, given again to the vault it unlocked.
C8_Witness ==
    /\ Returned("Unlock")
    /\ last.err = ErrUnlocked
    /\ last.call.arg = aead.secret

\* C9: the first successful Unlock sets the secret: every later Unlock with a
\* different secret is rejected with ErrIncorrectSecret.
C9_FirstUnlockSetsSecret ==
    (/\ Returned("Unlock") /\ RanLocked
     /\ firstSecret # 0 /\ last.call.arg # firstSecret)
        => last.err = ErrIncorrectSecret

SomeReturn == last.call.op # "none"

\* the Unlock that just returned had read no salt and called SetKeySalt
CalledSetKeySalt == Len(last.calls) >= 2 /\ last.calls[2] = "SetKeySalt"

\* C11: key_salt is written at most once: once a salt is stored no step
\* changes it, whoever calls; SetKeySalt on a store with a salt returns
\* ErrSaltSet; and after an Unlock that got as far as deriving a key the
\* salt is stored.
C11_SaltWrittenOnce ==
    /\ (SomeReturn /\ last.before.keySalt # 0) => keySalt = last.before.keySalt
    /\ (Returned("SetKeySalt") /\ last.before.keySalt # 0) => last.err = ErrSaltSet
    /\ (Returned("Unlock") /\ last.err \in {ErrNone, ErrIncorrectSecret}) => keySalt # 0
    /\ firstSecret # 0 => keySalt # 0

\* C11 witness: another writer's SetKeySalt is refused on the salt this
\* vault's first Unlock stored.
C11_Witness ==
    /\ Returned("SetKeySalt")
    /\ last.err = ErrSaltSet
    /\ keySalt \in Salts
    /\ firstSecret # 0

\* C12: an Unlock that read no salt and whose SetKeySalt then finds one
\* stored rereads it and goes on: it does not return ErrSaltSet, and if it
\* succeeds the installed key is derived from the stored salt.
C12_UnlockRereadsSalt ==
    (Returned("Unlock") /\ CalledSetKeySalt /\ last.before.keySalt # 0)
        => /\ last.err \in {ErrNone, ErrIncorrectSecret}
           /\ last.err = ErrNone => aead = IDKey(last.call.arg, keySalt)

\* C13: however NextKey calls for one seed interleave, each successful call
\* adds one row whose public key was not stored and whose seed_index is the
\* number of keys the seed had, so a seed's indices are 0, 1, 2, ... without
\* gap or repetition.
C13_NextKeyAtomic ==
    /\ \A id \in StoredIDs :
           IndicesOf(id) = 0..(Cardinality(KeysOf(signingKeys, id)) - 1)
    /\ (Returned("NextKey") /\ last.err = ErrNone) =>
           LET id == last.call.arg
               n == Cardinality(KeysOf(last.before.signingKeys, id))
           IN /\ last.val \notin {r.public_key : r \in last.before.signingKeys}
              /\ signingKeys = last.before.signingKeys \cup
                     {[public_key |-> last.val, seed_id |-> id, seed_index |-> n]}

\* C13 witness: the second thread's NextKey has returned a seed's second key
\* while the first thread is inside a call of its own.
C13_Witness ==
    /\ Returned("NextKey") /\ last.err = ErrNone
    /\ last.thread = 2
    /\ last.val.pkIndex = 1
    /\ pc[1] # "idle"

\* the plaintext of stored seed id: what opening its blob yields
PlainOf(id) == seeds[id].encrypted_seed.pt

\* C15: every signing_keys row holds the public key of
\* key_from_seed(plaintext of its seed, its seed_index), and every signature
\* Sign(pk, h) returns verifies under pk over h.
C15_SignaturesVerify ==
    /\ \A r \in signingKeys :
           /\ r.seed_id \in StoredIDs
           /\ r.public_key = PublicKey(KeyFromSeed(PlainOf(r.seed_id), r.seed_index))
    /\ (Returned("Sign") /\ last.err = ErrNone) =>
           VerifyHash(last.call.arg, last.call.hash, last.val)

\* C15 witness: Sign has returned a signature for a seed's second key.
C15_Witness ==
    /\ Returned("Sign") /\ last.err = ErrNone
    /\ last.call.arg.pkIndex = 1

\* the seed AddSeed was just called with was stored before, under the
\* installed key
AddedAgain ==
    /\ Returned("AddSeed") /\ last.err = ErrNone
    /\ \E i \in 1..Len(last.before.seeds) :
           last.before.seeds[i].seed_mac = MacSum(last.before.mac, last.call.arg)

C17_LastIndex ==
    /\ \A id \in StoredIDs :
           LET n == Cardinality(KeysOf(signingKeys, id))
               meta == seedMeta(seeds, signingKeys, id)
           IN /\ meta.LastIndex = IF n = 0 THEN 0 ELSE n - 1
              /\ n > 0 => meta.LastIndex = Max(IndicesOf(id))
    /\ (Returned("SeedMeta") /\ last.err = ErrNone) =>
           LET n == Cardinality(KeysOf(signingKeys, last.call.arg))
           IN last.val.LastIndex = IF n = 0 THEN 0 ELSE n - 1

\* C17 witness: SeedMeta of a seed with two keys returns LastIndex 1.
C17_Witness ==
    /\ Returned("SeedMeta") /\ last.err = ErrNone
    /\ last.val.LastIndex = 1
    /\ Cardinality(KeysOf(signingKeys, last.call.arg)) = 2

\* AddKeyIndex has just returned, called with a public key that was stored
AddedStoredKey ==
    /\ Returned("AddKeyIndex")
    /\ \E r \in last.before.signingKeys : r.public_key = last.call.arg.pk

\* C18: no public key is stored in two rows, and AddKeyIndex with a stored
\* public key returns nil and leaves table signing_keys as it was, whatever
\* seed id and index it is called with.
C18_PublicKeyOnce ==
    /\ \A r1, r2 \in signingKeys : r1.public_key = r2.public_key => r1 = r2
    /\ AddedStoredKey =>
           /\ last.err = ErrNone
           /\ signingKeys = last.before.signingKeys

\* C18 witness: AddKeyIndex called with a stored public key under another
\* seed id and another index.
C18_Witness ==
    /\ AddedStoredKey
    /\ \E r \in signingKeys :
           /\ r.public_key = last.call.arg.pk
           /\ r.seed_id # last.call.arg.id
           /\ r.seed_index # last.call.arg.index

\* the keys of seed id at the indices 0..n-1, in order
FirstKeys(id, n) == [i \in 1..n |-> PublicKey(KeyFromSeed(PlainOf(id), i - 1))]

\* C14: a successful NextKey(id) on a seed that has k keys returns the public
\* key of key_from_seed(plaintext, k) and stores it at seed_index k; and
\* POST /seeds/{id}/keys with count n on a seed without keys returns these
\* keys for the indices 0..n-1 in order, and stores them so.
C14_KeysFromSeed ==
    /\ (Returned("NextKey") /\ last.err = ErrNone) =>
           LET id == last.call.arg
               k == Cardinality(KeysOf(last.before.signingKeys, id))
           IN /\ last.val = PublicKey(KeyFromSeed(PlainOf(id), k))
              /\ [public_key |-> last.val, seed_id |-> id, seed_index |-> k]
                     \in signingKeys
    /\ (/\ Returned("POST /seeds/:id/keys") /\ last.err = ErrNone
        /\ KeysOf(last.before.signingKeys, last.call.arg) = {}) =>
           LET id == last.call.arg
               n == last.call.limit
           IN /\ last.val.keys = FirstKeys(id, n)
              /\ KeysOf(signingKeys, id) =
                     {[public_key |-> FirstKeys(id, n)[i], seed_id |-> id,
                       seed_index |-> i - 1] : i \in 1..n}

\* C14 witness: two keys requested of the second seed, fresh, in one request.
C14_Witness ==
    /\ Returned("POST /seeds/:id/keys") /\ last.err = ErrNone
    /\ last.call.arg = 2 /\ last.call.limit = 2
    /\ Len(last.val.keys) = 2
    /\ KeysOf(last.before.signingKeys, 2) = {}

\* the consensus state the signing handler that just returned worked with
RequestCS ==
    getConsensusState(last.call.arg.ctx.state, last.call.arg.ctx.network,
                      last.call.arg.ctx.tip)

\* C19: POST /sign with a consensus state at or above the network's v2
\* require height is rejected with an error (400): no transaction, and so no
\* signature, is returned.
C19_SignV1RejectedAfterRequire ==
    (/\ Returned("POST /sign") /\ RequestCS.err = ErrNone
     /\ RequestCS.cs.height >= RequestCS.cs.network.requireHeight)
        => /\ last.err # ErrNone
           /\ last.val.status = "BadRequest"
           /\ last.val.transaction = NoTransaction

\* the vault holds pk: a signing_keys row has it
Held(ks, pk) == \E r \in ks : r.public_key = pk

\* POST /v2/sign has just answered a request for one siacoin input under
\* Threshold(2, [PublicKey(ours), PublicKey(other)]), with the vault
\* unlocked and holding the first key only
ThresholdPartlyHeld ==
    /\ Returned("POST /v2/sign") /\ last.err = ErrNone
    /\ ~RanLocked
    /\ last.call.arg.txn.siafundInputs = <<>>
    /\ \E p \in RequestPKs, q \in RequestPKs :
        /\ last.call.arg.txn.siacoinInputs =
               <<V2Input(PolicyThreshold(2, <<PolicyPublicKey(p), PolicyPublicKey(q)>>))>>
        /\ Held(last.before.signingKeys, p)
        /\ ~Held(last.before.signingKeys, q)

\* C20: sign_v2 of Threshold(2, [PublicKey(ours), PublicKey(other)]) with
\* only the first key held returns the transaction with one signature
\* appended to the input and fullySigned = false.
C20_ThresholdPartlyHeld ==
    ThresholdPartlyHeld =>
        /\ Len(last.val.transaction.siacoinInputs[1].signatures) = 1
        /\ last.val.fullySigned = FALSE

\* the public keys a spend policy names
RECURSIVE PolicyKeys(_)
PolicyKeys(policy) ==
    IF policy.type = "pk" THEN {policy.pk}
    ELSE IF policy.type = "uc" THEN {uk.key : uk \in Range(policy.publicKeys)}
    ELSE IF policy.type = "thresh"
    THEN UNION {PolicyKeys(policy.of[i]) : i \in 1..Len(policy.of)}
    ELSE {}

\* POST /sign has just answered, on a Locked vault, a request with a usable
\* consensus state and an unsigned entry for a key the vault holds
LockedSignV1 ==
    /\ Returned("POST /sign") /\ RanLocked /\ RequestCS.err = ErrNone
    /\ \E e \in Range(last.call.arg.txn.signatures) :
        LET key == publicKeyForSigning(last.call.arg.txn, e.parentID, e.publicKeyIndex)
        IN e.signature = <<>> /\ key.ok /\ Held(last.before.signingKeys, key.pk)

\* POST /v2/sign has just answered, on a Locked vault, a request at or after
\* the allow height with an input whose policy names a key the vault holds
LockedSignV2 ==
    /\ Returned("POST /v2/sign") /\ RanLocked /\ RequestCS.err = ErrNone
    /\ RequestCS.cs.height >= RequestCS.cs.network.allowHeight
    /\ \E in \in Range(last.call.arg.txn.siacoinInputs \o last.call.arg.txn.siafundInputs) :
        \E pk \in PolicyKeys(in.policy) : Held(last.before.signingKeys, pk)

\* POST /blind/sign has just answered, on a Locked vault, a request for a key
\* the vault holds
LockedBlindSign ==
    /\ Returned("POST /blind/sign") /\ RanLocked
    /\ Held(last.before.signingKeys, last.call.arg)

SignV2Allowed ==
    /\ Returned("POST /v2/sign") /\ RequestCS.err = ErrNone
    /\ RequestCS.cs.height >= RequestCS.cs.network.allowHeight

\* signPolicy on one input of the request just answered, run on its own in
\* the state the request was served in (signing changes no state)
OwnResult(in) ==
    signPolicy(in.policy, InputSigHash(RequestCS.cs, last.call.arg.txn),
               [err |-> ErrNone, signatures |-> in.signatures, calls |-> <<>>])

\* C22: at or after the allow height sign_v2 always answers with the
\* transaction; an input whose policy fails does not end the request: every
\* input, siacoin and siafund, comes back with the signatures its own policy
\* evaluation gives, and fullySigned is false exactly when some input's
\* evaluation failed.
C22_SignV2AlwaysReturns ==
    SignV2Allowed =>
        LET req == last.call.arg.txn
            txn == last.val.transaction
        IN /\ last.err = ErrNone /\ last.val.status = "OK"
           /\ Len(txn.siacoinInputs) = Len(req.siacoinInputs)
           /\ Len(txn.siafundInputs) = Len(req.siafundInputs)
           /\ \A i \in 1..Len(req.siacoinInputs) :
                /\ txn.siacoinInputs[i].policy = req.siacoinInputs[i].policy
                /\ txn.siacoinInputs[i].signatures
                       = OwnResult(req.siacoinInputs[i]).signatures
           /\ \A i \in 1..Len(req.siafundInputs) :
                /\ txn.siafundInputs[i].policy = req.siafundInputs[i].policy
                /\ txn.siafundInputs[i].signatures
                       = OwnResult(req.siafundInputs[i]).signatures
           /\ last.val.fullySigned = FALSE
                <=> \E in \in Range(req.siacoinInputs \o req.siafundInputs) :
                        OwnResult(in).err # ErrNone

\* the siacoin input's policy failed and the siafund input after it was
\* signed all the same
C22_Witness ==
    /\ SignV2Allowed
    /\ Len(last.call.arg.txn.siacoinInputs) = 1
    /\ Len(last.call.arg.txn.siafundInputs) = 1
    /\ OwnResult(last.call.arg.txn.siacoinInputs[1]).err = ErrAlgorithm
    /\ Len(last.val.transaction.siafundInputs[1].signatures) = 1
    /\ last.val.fullySigned = FALSE


\* C23: there are never more than 64 calls of signPolicy on the stack,
\* however deep the policy of the request is nested.
C23_DepthCapped == \A t \in Threads : Len(loc[t].run.frames) <= 64


\* POST /sign has just answered a request with a usable consensus state
\* below the require height
SignV1Allowed ==
    /\ Returned("POST /sign") /\ RequestCS.err = ErrNone
    /\ RequestCS.cs.height < RequestCS.cs.network.requireHeight

\* the key entry e of the request just answered is to be signed with
EntryKey(e) == publicKeyForSigning(last.call.arg.txn, e.parentID, e.publicKeyIndex)

\* entry e carries no signature and names an ed25519 key of an input
ToSign(e) == e.signature = <<>> /\ EntryKey(e).ok

\* entry e is filled once the request is served: it came signed, or it is to
\* be signed and the vault signs with its key
Fills(e) == e.signature # <<>> \/ (ToSign(e) /\ Sign(EntryKey(e).pk, 0).err = ErrNone)

\* every entry of the request is processed: the vault fails for none of them
AllProcessed ==
    \A e \in Range(last.call.arg.txn.signatures) :
        ToSign(e) => Sign(EntryKey(e).pk, 0).err \in {ErrNone, ErrNotFound}

C25_SignedEntriesKept ==
    (Returned("POST /sign") /\ RequestCS.err = ErrNone) =>
        LET req == last.call.arg.txn.signatures
            out == last.val.transaction.signatures
        IN /\ Len(last.calls) <= Cardinality({i \in 1..Len(req) : ToSign(req[i])})
           /\ last.err = ErrNone =>
                \A i \in 1..Len(req) : req[i].signature # <<>> => out[i] = req[i]
           /\ (req # <<>> /\ \A e \in Range(req) : e.signature # <<>>) =>
                last.err = ErrNone /\ last.val.fullySigned /\ last.calls = <<>>

\* a transaction came back with its first entry as it came, signed outside
\* the vault, and its second entry signed by the vault
C25_Witness ==
    /\ Returned("POST /sign") /\ last.err = ErrNone
    /\ Len(last.call.arg.txn.signatures) = 2
    /\ last.call.arg.txn.signatures[1].signature = PresetSignature
    /\ last.val.transaction.signatures[1] = last.call.arg.txn.signatures[1]
    /\ last.call.arg.txn.signatures[2].signature = <<>>
    /\ last.val.transaction.signatures[2].signature # <<>>
    /\ last.calls = <<"Sign">>


\* C26: sign_v2 with a consensus state below the network's v2 allow height is
\* rejected with an error, with no call of the vault's Sign and no signature
\* returned; at every height from the allow height on it goes on to sign.
C26_SignV2AllowHeight ==
    (Returned("POST /v2/sign") /\ RequestCS.err = ErrNone) =>
        IF RequestCS.cs.height < RequestCS.cs.network.allowHeight
        THEN /\ last.err = ErrNotAllowed /\ last.val.status = "BadRequest"
             /\ last.calls = <<>>
             /\ last.val.transaction = NoTransaction
        ELSE /\ last.err = ErrNone /\ last.val.status = "OK"
             /\ \A in \in Range(last.call.arg.txn.siacoinInputs
                                   \o last.call.arg.txn.siafundInputs) :
                    in.policy.type = "pk" => "Sign" \in Range(last.calls)

\* a request at the allow height itself was signed
C26_Witness ==
    /\ Returned("POST /v2/sign") /\ RequestCS.err = ErrNone
    /\ RequestCS.cs.height = RequestCS.cs.network.allowHeight
    /\ RequestCS.cs.height > 0
    /\ last.val.fullySigned
    /\ Len(last.val.transaction.siacoinInputs) = 1
    /\ Len(last.val.transaction.siacoinInputs[1].signatures) = 1


\* the operations of the vault that go through tg.Add
VaultOps == {"Unlock", "Lock", "AddSeed", "NextKey", "Sign", "SeedMeta", "SeedKeys", "Seeds"}

\* Close has been called and every call of it has returned
CloseReturned == closed /\ \A t \in Threads : pc[t] # "stopping"

C28_AttemptsAsConfigured ==
    last.call.op = "transaction" =>
        LET n == last.call.arg.maxRetryAttempts
            busy == last.call.arg.busy
        IN /\ busy >= n =>
               /\ last.err = "transaction failed: database is locked"
               /\ last.val.attempt - 1 = n
           /\ (busy < n /\ last.err # "transaction failed: failed to insert seed") =>
               last.err = ErrNone

\* ---- C29 (as the specification states it)
\* On every exit of Vault.AddSeed, Vault.NextKey and Vault.Sign, every buffer
\* that held the plaintext seed or a derived private key, the caller's seed
\* array passed to AddSeed included, is all zeros when the call returns.
C29_BuffersZeroed ==
    (last.call.op \in {"AddSeed", "NextKey", "Sign"}) =>
        \A b \in DOMAIN last.val.mem \ {"encrypted", "encryptedSeed"} :
            last.val.mem[b] = <<"zeros">>

\* ---- C30 (as the specification states it)
\* Opening a database whose db_version is any v from 1 to 1 + len(migrations)
\* applies exactly the pending migrations in list order, each once, leaves
\* db_version = 1 + len(migrations), and yields the tables, columns and
\* indices of a fresh install from init.sql; opening it again changes nothing.
C30_MigrationsConverge ==
    (last.call.op = "OpenDatabase"
     /\ last.call.arg.file.db_version \in 1..(NumMigrations + 1)) =>
        LET v == last.call.arg.file.db_version
        IN /\ last.err = ErrNone
           /\ last.calls = [i \in 1..(NumMigrations + 1 - v) |-> v + i - 1]
           /\ last.val.db_version = NumMigrations + 1
           /\ last.val.schema = InitSQL
           /\ v = NumMigrations + 1 => last.val = last.call.arg.file

\* ---- C31
\* After the first successful TipState the Manager has a poller until Close,
\* TipState returns the cached state, and whenever the explorer serves a state
\* then, unless that state changes again or the Manager is closed, the cached
\* state becomes that state.
C31_TipFollowsExplorer ==
    /\ [](loc[1].m.cs.network # "nil" /\ ~loc[1].m.closed
            => loc[1].m.poller \in {"go", "select", "fetched"})
    /\ []((last.call.op = "TipState" /\ last.err = ErrNone) => last.val = loc[1].m.cs)
    /\ \A index \in 0..(NumTips - 1) :
           (loc[1].m.cs.network # "nil" /\ loc[1].m.explorer = index)
               ~> (\/ loc[1].m.cs.index = index
                   \/ loc[1].m.explorer # index
                   \/ loc[1].m.closed)

\* TipState returned a state the poller stored: other than the one the first
\* call fetched, and the one the explorer serves
C31_Witness ==
    /\ last.call.op = "TipState" /\ last.err = ErrNone
    /\ last.val.index = loc[1].m.explorer /\ last.val.index = 2
    /\ loc[1].m.fetched = 2 /\ ~loc[1].m.closed

\* the signatures Vault.Sign gives for the first `stop` of a list of public
\* key policies, in list order, a key the vault does not hold giving none
RECURSIVE SignaturesOf(_, _, _)
SignaturesOf(of, sigHash, stop) ==
    IF stop = 0 THEN <<>>
    ELSE SignaturesOf(of, sigHash, stop - 1)
         \o (IF Sign(of[stop].pk, sigHash).err = ErrNone
             THEN <<Sign(of[stop].pk, sigHash).sig>> ELSE <<>>)

\* POST /v2/sign has just answered, at or after the allow height, a request
\* for one siacoin input under a threshold over public keys
ThresholdRequest ==
    /\ SignV2Allowed
    /\ last.call.arg.txn.siafundInputs = <<>>
    /\ Len(last.call.arg.txn.siacoinInputs) = 1
    /\ last.call.arg.txn.siacoinInputs[1].policy.type = "thresh"

UnlockConditionsRequest ==
    /\ SignV2Allowed
    /\ last.call.arg.txn.siafundInputs = <<>>
    /\ Len(last.call.arg.txn.siacoinInputs) = 1
    /\ last.call.arg.txn.siacoinInputs[1].policy.type = "uc"

\* what C33 states of the request just answered: the listed keys the vault
\* holds, in list order, sign until the requirement is met
UnlockConditionsSigned ==
    LET in == last.call.arg.txn.siacoinInputs[1]
        keys == in.policy.publicKeys
        required == in.policy.signaturesRequired
        sigHash == InputSigHash(RequestCS.cs, last.call.arg.txn)
        held(uk) == Held(last.before.signingKeys, uk.key)
        bad(uk) == uk.algorithm # Ed25519 \/ uk.size # PublicKeySize
        heldBefore(i) == Len(SelectSeq(SubSeq(keys, 1, i - 1), held))
        reached == \E i \in 1..Len(keys) : bad(keys[i]) /\ heldBefore(i) < required
        signers == SelectSeq(keys, held)
        r == OwnResult(in)
        out == last.val.transaction.siacoinInputs[1].signatures
    IN /\ out = r.signatures
       /\ last.val.fullySigned <=> r.err = ErrNone
       /\ IF reached THEN r.err # ErrNone
          ELSE /\ Len(out) = Min({required, Len(signers)})
               /\ \A j \in 1..Len(out) : VerifyHash(signers[j].key, sigHash, out[j])
               /\ r.err = ErrRequired <=> Len(signers) < required
               /\ r.err = ErrNone <=> Len(signers) >= required

\* ---- C33 (as the specification states it)
\* For an UnlockConditions policy the v2 satisfier appends one signature per
\* key the vault holds, in list order, and never more than signatures_required
\* in all; it fails with "required signatures not met" if and only if fewer
\* than signatures_required of the listed keys are held; a key that is not
\* Ed25519 or not 32 bytes, reached before the requirement is met, fails the
\* input.
C33_UnlockConditions ==
    UnlockConditionsRequest => UnlockConditionsSigned

\* ---- C33 (amended)
\* The same, of a request served by an unlocked vault.  (On a locked vault a
\* held key's Vault.Sign fails and the input fails with that error.)
C33_UnlockConditionsUnlocked ==
    (UnlockConditionsRequest /\ ~RanLocked) => UnlockConditionsSigned

\* unlock conditions that require one signature, over two keys the unlocked
\* vault holds, came back with one signature after one call of Vault.Sign
C33_Witness ==
    /\ UnlockConditionsRequest /\ ~RanLocked
    /\ last.call.arg.txn.siacoinInputs[1].policy.signaturesRequired = 1
    /\ \A uk \in Range(last.call.arg.txn.siacoinInputs[1].policy.publicKeys) :
           Held(last.before.signingKeys, uk.key)
    /\ Len(last.val.transaction.siacoinInputs[1].signatures) = 1
    /\ Len(last.calls) = 1
    /\ last.val.fullySigned

\* ---- C34
\* In every state of a vault that alone writes its store, all stored seeds are
\* sealed under one key, and while the vault is Unlocked the installed AEAD
\* is that key: every stored seed opens under it, whichever single blob
\* Unlock happened to verify the secret against.
C34_OneSeedKey ==
    /\ \A i, j \in StoredIDs : seeds[i].encrypted_seed.key = seeds[j].encrypted_seed.key
    /\ ~Locked => \A i \in StoredIDs : OpenOK(aead, seeds[i].encrypted_seed)

\* two different seeds are stored and an Unlock of the locked vault has just
\* succeeded, verified against one of the two blobs
C34_Witness ==
    /\ Returned("Unlock") /\ RanLocked /\ last.err = ErrNone
    /\ Len(last.before.seeds) = 2
    /\ seeds[1].encrypted_seed.pt # seeds[2].encrypted_seed.pt
    /\ ~Locked

\* ---- C35
\* Of the Unlock calls made at once, with a correct secret, on a locked vault,
\* exactly one returns success and every other returns ErrUnlocked: the call
\* whose body finds the vault locked installs the keys and succeeds, every
\* body that runs after it finds them installed, makes no store call and
\* leaves the salt alone.  The salt is written by no call but the winner, and
\* only when none was stored.
C35_OneUnlockWins ==
    /\ firstSecret # 0 <=> ~Locked
    /\ Returned("Unlock") =>
        /\ last.err = IF RanLocked THEN ErrNone ELSE ErrUnlocked
        /\ RanLocked => ~Locked /\ aead = IDKey(last.call.arg, keySalt)
        /\ ~RanLocked => /\ last.calls = <<>>
                         /\ keySalt = last.before.keySalt
                         /\ aead = last.before.aead /\ mac = last.before.mac
        /\ "SetKeySalt" \in Range(last.calls) =>
               RanLocked /\ last.before.keySalt = 0 /\ keySalt # 0

\* the last of the calls made while the vault was locked has just
\* returned ErrUnlocked: the first had won and written the salt
C35_Witness ==
    /\ Returned("Unlock") /\ last.err = ErrUnlocked
    /\ \A t \in Unlockers : pc[t] = "idle"
    /\ keySalt # 0 /\ seeds = <<>>

\* ---- C36
\* While the vault is locked no step of any operation (AddSeed, NextKey,
\* Sign, the reads, Unlock whether it fails or succeeds) adds or changes a
\* row of seeds or signing_keys; the only store write a locked vault makes is
\* Unlock's write of key_salt, made once, when none is stored.
C36_LockedStoreFrame ==
    [][Locked => /\ seeds' = seeds
                 /\ signingKeys' = signingKeys
                 /\ keySalt' # keySalt => keySalt = 0 /\ last'.call.op = "Unlock"]_vars

\* NextKey for a stored seed that has a key already was refused by the locked
\* vault, and the rows are as they were
C36_Witness ==
    /\ Returned("NextKey") /\ RanLocked /\ last.err = ErrLocked
    /\ last.call.arg \in StoredIDs
    /\ IndicesOf(last.call.arg) # {}
    /\ seeds = last.before.seeds /\ signingKeys = last.before.signingKeys

\* ---- C37 (as the specification states it)
\* For every configured maxRetryAttempts >= 1, Store.transaction runs the
\* transaction body at least once, and returns an error only if an attempt
\* failed: it never reports failure without having executed the body.  The
\* body has run attempt - 1 times when the loop ran out (the errors that wrap
\* the loop's last error, or none), and `attempt` times when the loop was left
\* from within.
C37_BodyRunsBeforeFailure ==
    last.call.op = "transaction" =>
        LET ranOut == last.err \in {"transaction failed: %!w(<nil>)",
                                    "transaction failed: database is locked"}
            executed == IF ranOut THEN last.val.attempt - 1 ELSE last.val.attempt
        IN /\ executed >= 1
           /\ last.err # ErrNone =>
                \/ last.call.arg.busy >= 1
                \/ InsertSeedFails(last.call.arg.mac, last.call.arg.encryptedSeed)

\* ---- C38
\* sign_v2 only appends to each input's satisfied_policy.signatures: the
\* signatures the request came with remain, unchanged and in order, as a
\* prefix of the returned list; every appended signature is over the one
\* digest InputSigHash(txn) of the request as it came, made by a key of the
\* input's policy; and the inputs and their policies are as in the request.
C38_SignV2OnlyAppends ==
    SignV2Allowed =>
        LET req == last.call.arg.txn
            txn == last.val.transaction
            sigHash == InputSigHash(RequestCS.cs, req)
            appended(in, out) ==
                /\ out.policy = in.policy
                /\ Len(out.signatures) >= Len(in.signatures)
                /\ SubSeq(out.signatures, 1, Len(in.signatures)) = in.signatures
                /\ \A j \in (Len(in.signatures) + 1)..Len(out.signatures) :
                       \E pk \in PolicyKeys(in.policy) :
                           VerifyHash(pk, sigHash, out.signatures[j])
        IN /\ DOMAIN txn = DOMAIN req
           /\ Len(txn.siacoinInputs) = Len(req.siacoinInputs)
           /\ Len(txn.siafundInputs) = Len(req.siafundInputs)
           /\ \A i \in 1..Len(req.siacoinInputs) :
                  appended(req.siacoinInputs[i], txn.siacoinInputs[i])
           /\ \A i \in 1..Len(req.siafundInputs) :
                  appended(req.siafundInputs[i], txn.siafundInputs[i])

\* a siacoin input that came with two signatures under a threshold of two
\* held keys came back with four, the two it came with first
C38_Witness ==
    /\ SignV2Allowed /\ ~RanLocked
    /\ Len(last.call.arg.txn.siacoinInputs) = 1
    /\ last.call.arg.txn.siacoinInputs[1].signatures = PresetSignatures
    /\ Len(last.val.transaction.siacoinInputs[1].signatures) = 4
    /\ last.val.fullySigned

\* ---- C39 (as the specification states it)
\* GET /seeds/{id} and GET /seeds/{id}/keys emit exactly one response: for an
\* unknown seed id only the 404 error, and no SeedMeta or keys body after it.
C39_OneResponse ==
    (Returned("GET /seeds/:id") \/ Returned("GET /seeds/:id/keys")) =>
        /\ Len(last.val.written) = 1
        /\ last.err = ErrNotFound =>
               last.val.written = <<Error(ErrNotFound, "NotFound")>>

\* ---- C40
\* bytesToInt and intToBytes are mutually inverse on the arrays:
\* intToBytes(bytesToInt(b)) = b for every array b, with its zero bytes at
\* either end, and distinct arrays map to distinct integers, so that the
\* bytes intToBytes gives for an integer are the only array bytesToInt maps
\* to it.
C40_CodecInverse ==
    /\ Returned("bytesToInt") =>
        /\ last.val >= 0
        /\ intToBytes(last.val) = last.call.arg
        /\ \A other \in CodecInputs :
               other # last.call.arg => bytesToInt(other) # last.val
    /\ Returned("intToBytes") =>
        /\ last.val \in CodecInputs
        /\ bytesToInt(last.val) = last.call.arg
        /\ \A bs \in CodecInputs : bytesToInt(bs) = last.call.arg => bs = last.val

\* an array with a zero byte at either end came back from the integer it
\* was mapped to
C40_Witness ==
    /\ Returned("intToBytes")
    /\ last.val[1] = 0 /\ last.val[NumCodecBytes] = 0 /\ last.val[2] = 255
    /\ last.call.arg = bytesToInt(<<0, 255, 0>>)

====
